---- MODULE Spec2Model ----
(***************************************************************************)
(* Object store, link/backlink graph and cascade removal of realm::Table   *)
(* (src/realm/table.hpp) with the key column realm::ArrayKey               *)
(* (src/realm/array_key.hpp).                                              *)
(*                                                                         *)
(* A group holds two tables, "T" and "U".  Link columns are added and      *)
(* removed at run time; objects are created, linked, unlinked and removed. *)
(* Every action is one whole public call, cascade included.                *)
(***************************************************************************)
EXTENDS Integers, Sequences, FiniteSets, TLC

(***************************************************************************)
(* Bounds of the model.                                                    *)
(***************************************************************************)
\* Number of keys a table can hand out (keys 0 .. NumKeys-1).
NumKeys == 2
\* Longest link list an object can hold.
MaxListLen == 2
\* Largest number of link columns the group holds at one time.
MaxLinkCols == 2
\* Largest value the global version counter takes.
MaxVersion == 5
\* Number of threads that hold handles to the reference-counted table.
NumThreads == 2
\* Largest number of handles outstanding at one time.
MaxHandles == 4
KeyBits == 3
MaxArrayLen == 3
MaxRows == 4
MaxEnqueued == 2
MaxVisits == 4
MaxClusters == 3
MaxClusterKey == 3
NumRowAccessors == 3
MaxIntValue == 2

Tables == {"T", "U"}
Threads == 1 .. NumThreads
RowIds == 1 .. NumRowAccessors
TableThread == NumRowAccessors + 1
Keys == 0 .. (NumKeys - 1)
Objects == Tables \X Keys

\* The link columns that add_column_link can create in this model:
\*   column 1: T -> U, type_Link      (single link)
\*   column 2: U -> T, type_LinkList  (link list)
\*   column 3: T -> T, type_Link      (single link within one table)
ColIds == {1, 2, 3}
Origin(c) == IF c = 2 THEN "U" ELSE "T"
Target(c) == IF c = 1 THEN "U" ELSE "T"
IsList(c) == c = 2
LinkTypes == {"link_Weak", "link_Strong"}

\* The accessor tree of a group: two group-level tables; G1 has the
\* subtables S1 and S2, and S1 has the subtable SS.
Accessors == {"G1", "G2", "S1", "S2", "SS"}
AccessorParent(a) ==
    IF a = "SS" THEN "S1" ELSE IF a \in {"S1", "S2"} THEN "G1" ELSE "group"

(***************************************************************************)
(* realm::ArrayKey: an Array of integers, slot = key value + 1, 0 = null.  *)
(* An array is a sequence; C++ index ndx is TLA+ index ndx + 1.            *)
(***************************************************************************)
\* Key{} : the null key, the value get() yields for a slot holding 0.
null_key == -1
\* realm::npos, "not found".
npos == -1

\* Key::value and the slots of an Array are signed integers of a fixed
\* width (int64_t; KeyBits here): arithmetic on them wraps around.
KeyValues == (-(2 ^ (KeyBits - 1))) .. (2 ^ (KeyBits - 1) - 1)
\* Arithmetic that stops at the least and the greatest integer instead of
\* wrapping around.
Saturate(x) ==
    IF x > 2 ^ (KeyBits - 1) - 1 THEN 2 ^ (KeyBits - 1) - 1
    ELSE IF x < -(2 ^ (KeyBits - 1)) THEN -(2 ^ (KeyBits - 1))
    ELSE x

Wrap(x) == ((x + 2 ^ (KeyBits - 1)) % (2 ^ KeyBits)) - 2 ^ (KeyBits - 1)

Array_erase(a, ndx) == SubSeq(a, 1, ndx) \o SubSeq(a, ndx + 2, Len(a))

Array_find_first(a, stored, begin, end) ==
    LET hits == {i \in begin .. (end - 1) : a[i + 1] = stored}
    IN  IF hits = {} THEN npos
        ELSE CHOOSE i \in hits : \A j \in hits : i <= j

\* default_value(): Key{}.
ArrayKey_default_value == null_key

ArrayKey_add(a, value) == Append(a, Wrap(value + 1))

ArrayKey_set(a, ndx, value) == [a EXCEPT ![ndx + 1] = Wrap(value + 1)]

\* set_null() that stores the value of the null key instead of 0.
ArrayKey_set_null_key(a, ndx) == [a EXCEPT ![ndx + 1] = null_key]

ArrayKey_set_null(a, ndx) == [a EXCEPT ![ndx + 1] = 0]

ArrayKey_insert(a, ndx, value) ==
    SubSeq(a, 1, ndx) \o <<Wrap(value + 1)>> \o SubSeq(a, ndx + 1, Len(a))

\* get() that returns the stored integer as the key value.
ArrayKey_get_raw(a, ndx) == a[ndx + 1]

ArrayKey_get(a, ndx) == Wrap(a[ndx + 1] - 1)

ArrayKey_is_null(a, ndx) == a[ndx + 1] = 0

\* find_first() that searches for key.value instead of key.value + 1.
ArrayKey_find_first_raw(a, value, begin, end) ==
    Array_find_first(a, value, begin, end)

ArrayKey_find_first(a, value, begin, end) ==
    Array_find_first(a, Wrap(value + 1), begin, end)

\* nullify(key) that erases every slot holding key.
ArrayKey_nullify_all(a, key) ==
    LET begin == ArrayKey_find_first(a, key, 0, Len(a))
        Other(x) == x # Wrap(key + 1)
    IN  IF begin = npos
        THEN [array |-> a, assert_failed |-> TRUE]
        ELSE [array |-> SelectSeq(a, Other), assert_failed |-> FALSE]

\* nullify(key) that erases the last slot instead of the slot found.
ArrayKey_nullify_last(a, key) ==
    LET begin == ArrayKey_find_first(a, key, 0, Len(a))
    IN  IF begin = npos
        THEN [array |-> a, assert_failed |-> TRUE]
        ELSE [array |-> Array_erase(a, Len(a) - 1), assert_failed |-> FALSE]

\* nullify(key) that searches for key.value instead of key.value + 1.
ArrayKey_nullify_raw(a, key) ==
    LET begin == Array_find_first(a, key, 0, Len(a))
    IN  IF begin = npos
        THEN [array |-> a, assert_failed |-> TRUE]
        ELSE [array |-> Array_erase(a, begin), assert_failed |-> FALSE]

\* nullify(key): erase the first slot holding key; REALM_ASSERT that there
\* is one.  The result says whether the assertion failed.
ArrayKey_nullify(a, key) ==
    LET begin == ArrayKey_find_first(a, key, 0, Len(a))
    IN  IF begin = npos
        THEN [array |-> a, assert_failed |-> TRUE]
        ELSE [array |-> Array_erase(a, begin), assert_failed |-> FALSE]

(***************************************************************************)
(* State.                                                                  *)
(***************************************************************************)
VARIABLES
    m_clusters,        \* [Tables -> SUBSET Keys]: the keys is_valid() accepts
    m_next_key_value,  \* [Tables -> Int]: key allocation counter, -1 = unset
    m_cols,            \* the link columns that exist (subset of ColIds)
    link_type,         \* [ColIds -> LinkTypes]
    m_names,           \* [ColIds -> Seq]: the name of each column, <<>> = none
    m_backlink_cols,   \* [Tables -> [ColIds -> Nat]]: the backlink columns a
                       \*   table holds for each origin column
    m_links,           \* [ColIds -> column data], slot ndx = origin key:
                       \*   type_Link: an ArrayKey; type_LinkList: one ArrayKey per slot
    m_backlinks,       \* [ColIds -> [target key -> [origin key -> count]]]
    assert_failed,     \* a REALM_ASSERT has failed: the process is gone
    m_size,            \* [Tables -> Nat]: the cached number of rows
    m_keys,            \* [Tables -> Seq(Keys)]: the keys in cluster order
    m_version,         \* [Tables -> Nat]: the version counter of each table
    version_global,    \* the allocator's global version counter
    last,              \* the last call made and its arguments
    arg_keys,          \* the key list handed to the last call, if any
    result,            \* what the last call returned, or the error it failed with
    pre,               \* the graph before the last call
    retired            \* [Tables -> SUBSET Keys]: the keys of removed objects

\* One reference-counted table accessor and the threads that hold handles
\* (TableRef) to it.
VARIABLES
    m_ref_count,       \* Table::m_ref_count
    constructed,       \* the accessor has been constructed
    has_parent,        \* it has a parent, which supplies the lock
    attached,          \* is_attached(): m_columns has a parent pointer
    deletes,           \* how many times "delete this" has run
    handles,           \* [Threads -> Nat]: the handles each thread holds
    pc,                \* [Threads -> position in unbind_ptr()]
    lock_owner,        \* holder of the accessor management lock, 0 = free
    use_after_delete,  \* the accessor was read after "delete this"
    ref_last,          \* the last step taken on the accessor
    ref_pre            \* the accessor before that step

\* One ArrayKey on its own, and the last call made on it.
VARIABLES
    ak_array,          \* the integers the Array holds
    ak_failed,         \* the REALM_ASSERT of nullify() has failed
    ak_last,           \* the last call on the array and its arguments
    ak_result,         \* what that call returned
    ak_pre             \* the array before that call

\* The table accessors of one group across a transaction boundary.
VARIABLES
    m_mark,            \* [Accessors -> BOOLEAN]: Table::m_mark
    stale,             \* the accessors whose storage has moved since their
                       \*   last refresh
    refreshed,         \* the accessors refreshed since the boundary
    was_marked         \* the accessors marked since the boundary

\* One integer column of a table and the last bound asked for.
VARIABLES
    int_column,        \* the values of the column, by row index
    bound_last,        \* the last call: lower or upper bound, and the value
    bound_result       \* the index it returned

\* One remove_object_recursive() request taken step by step.
VARIABLES
    cs_active,         \* a request is under way
    cs_subject,        \* the row the request was made for
    cs_graph,          \* the graph as the request has left it so far
    cs_todo,           \* the rows whose links are still to be followed
    cs_rows,           \* CascadeState: the rows pending removal
    cs_enqueued        \* [Objects -> Nat]: how often a row entered cs_rows

\* One bump_version() call taken step by step.
VARIABLES
    bv_active,         \* a bump is under way
    bv_subject,        \* the table bump_version(true) was called on
    bv_stack,          \* the calls of the recursion that have not returned,
                       \*   each with the columns it has still to follow
    bv_visits          \* [Tables -> Nat]: the calls made on each table

\* One cluster tree and one traverse() call on it.
VARIABLES
    tr_clusters,       \* the leaf clusters in tree order, each the set of
                       \*   keys it holds
    tr_stops,          \* the positions of the clusters for which the visit
                       \*   function signals stop
    tr_called,         \* traverse() has been called
    tr_visited,        \* the positions handed to the visit function, in
                       \*   the order of the calls
    tr_result          \* what traverse() returned

\* The row accessors bound to one table, each with a lifetime of its own,
\* and the thread that discards them.
VARIABLES
    m_row_accessors,   \* Table::m_row_accessors: the first row accessor of
                       \*   the chain, 0 = null
    row_next,          \* [RowIds -> row or 0]: the next accessor of the chain
    row_table,         \* [RowIds -> BOOLEAN]: the row accessor is attached
                       \*   (holds its table)
    m_accessor_mutex,  \* Table::m_accessor_mutex: its holder, 0 = free
    row_pc,            \* [RowIds -> position in attach / detach of the row]
    tbl_pc,            \* position of the thread that discards or detaches
    tbl_op,            \* what that thread is doing: discard or detach
    tbl_cursor,        \* the accessor its walk of the chain has reached
    registered,        \* the accessors registered and not yet unregistered
                       \*   or discarded
    tbl_pre_chain,     \* the chain when the thread took the mutex
    tbl_delta,         \* what the thread has added to m_ref_count
    tbl_done           \* the call of the thread that has returned

table_vars == <<m_clusters, m_next_key_value, m_cols, link_type, m_names,
                m_backlink_cols, m_links, m_backlinks, assert_failed, m_size, m_keys, m_version,
                version_global, last, arg_keys, result, pre, retired>>

ref_vars == <<m_ref_count, constructed, has_parent, attached, deletes,
              handles, pc, lock_owner, use_after_delete, ref_last, ref_pre>>

ak_vars == <<ak_array, ak_failed, ak_last, ak_result, ak_pre>>

mark_vars == <<m_mark, stale, refreshed, was_marked>>

bound_vars == <<int_column, bound_last, bound_result>>

cascade_vars == <<cs_active, cs_subject, cs_graph, cs_todo, cs_rows, cs_enqueued>>

bump_vars == <<bv_active, bv_subject, bv_stack, bv_visits>>

traverse_vars == <<tr_clusters, tr_stops, tr_called, tr_visited, tr_result>>

row_vars == <<m_row_accessors, row_next, row_table, m_accessor_mutex, row_pc,
              tbl_pc, tbl_op, tbl_cursor, registered, tbl_pre_chain,
              tbl_delta, tbl_done>>

vars == <<table_vars, ref_vars, ak_vars, mark_vars, bound_vars, cascade_vars,
         bump_vars,
         traverse_vars,
         row_vars>>

\* The link graph as one value, for the operators below.
Graph == [cl |-> m_clusters, cols |-> m_cols, lt |-> link_type,
          lk |-> m_links, bl |-> m_backlinks, failed |-> assert_failed,
          sz |-> m_size, ks |-> m_keys, nk |-> m_next_key_value,
          ver |-> m_version, gver |-> version_global,
          names |-> m_names, bcols |-> m_backlink_cols]

DefaultColumn(c) == [k \in 1 .. NumKeys |-> IF IsList(c) THEN <<>> ELSE 0]
NoBacklinks == [x \in Keys |-> [o \in Keys |-> 0]]

is_valid(g, t, key) == key \in g.cl[t]

\* The link list of origin key k in list column c.
get_linklist(g, c, k) == g.lk[c][k + 1]

\* Number of forward links from origin key k to target key x in column c.
LinkCount(g, c, k, x) ==
    IF IsList(c)
    THEN Cardinality({i \in 0 .. (Len(get_linklist(g, c, k)) - 1) :
                         ArrayKey_get(get_linklist(g, c, k), i) = x})
    ELSE IF ArrayKey_get(g.lk[c], k) = x THEN 1 ELSE 0

RECURSIVE SumBacklinks(_, _, _)
SumBacklinks(g, x, S) ==
    IF S = {} THEN 0
    ELSE LET p == CHOOSE q \in S : TRUE
         IN  g.bl[p[1]][x][p[2]] + SumBacklinks(g, x, S \ {p})

\* Number of backlink entries of object (t, x), over strong columns only or
\* over all link columns.
get_backlink_count(g, t, x, only_strong_links) ==
    SumBacklinks(g, x, {p \in ColIds \X Keys :
                           /\ p[1] \in g.cols
                           /\ Target(p[1]) = t
                           /\ (only_strong_links => g.lt[p[1]] = "link_Strong")})

(***************************************************************************)
(* Cascade removal (Table::set_link_type doc comment).  A strong link that *)
(* is broken removes its target when no other strong link points to it; a  *)
(* removed row breaks the links it holds, and the links to it are          *)
(* nullified (type_Link) or removed from the list (type_LinkList).         *)
(*                                                                         *)
(* mode is CascadeState's: "strong" follows strong links and counts strong *)
(* backlinks only, "all" follows every link and counts every backlink.     *)
(***************************************************************************)
\* Break every link row o holds: one backlink entry goes per forward link,
\* and the row's link slots are emptied.
break_links_of(g, o) ==
    [g EXCEPT
       !.lk = [c \in ColIds |->
                 IF c \in g.cols /\ Origin(c) = o[1]
                 THEN IF IsList(c) THEN [g.lk[c] EXCEPT ![o[2] + 1] = <<>>]
                                   ELSE ArrayKey_set_null(g.lk[c], o[2])
                 ELSE g.lk[c]],
       !.bl = [c \in ColIds |->
                 IF c \in g.cols /\ Origin(c) = o[1]
                 THEN [x \in Keys |->
                         [k \in Keys |->
                            IF k = o[2]
                            THEN g.bl[c][x][k] - LinkCount(g, c, k, x)
                            ELSE g.bl[c][x][k]]]
                 ELSE g.bl[c]]]

\* The targets of row o that its broken links leave without a holder and
\* that are not yet in the cascade state: g is the graph before o's links
\* were broken, g1 the graph after.
check_cascade_break_backlinks_to(g, g1, o, mode, rows) ==
    {x \in Objects :
        /\ x \notin rows
        /\ \E c \in g.cols :
              /\ Origin(c) = o[1]
              /\ Target(c) = x[1]
              /\ LinkCount(g, c, o[2], x[2]) > 0
              /\ (mode = "all" \/ (mode = "strong" /\ g.lt[c] = "link_Strong"))
        /\ get_backlink_count(g1, x[1], x[2], mode = "strong") = 0}

\* Collect the rows to remove, breaking the links each one holds.  rows is
\* the cascade state: no (table, key) enters it twice.
RECURSIVE cascade_break_backlinks_to(_, _, _, _)
cascade_break_backlinks_to(g, todo, rows, mode) ==
    IF todo = {} THEN [g |-> g, rows |-> rows]
    ELSE LET o == CHOOSE x \in todo : TRUE
             g1 == break_links_of(g, o)
             new == check_cascade_break_backlinks_to(g, g1, o, mode, rows)
         IN  cascade_break_backlinks_to(g1, (todo \ {o}) \cup new,
                                        rows \cup new, mode)

\* ArrayKey::nullify(key), n times: one call per backlink entry.
RECURSIVE nullify_n(_, _, _)
nullify_n(r, key, n) ==
    IF n <= 0 THEN r
    ELSE LET s == ArrayKey_nullify(r.array, key)
         IN  nullify_n([array |-> s.array,
                        assert_failed |-> r.assert_failed \/ s.assert_failed],
                       key, n - 1)

\* Removal that drops the backlink entries of row o and leaves the links
\* to it in place.
nullify_links_to_skipped(g, o) ==
    [g EXCEPT !.bl = [c \in ColIds |->
                        IF c \in g.cols /\ Target(c) = o[1]
                        THEN [g.bl[c] EXCEPT ![o[2]] = [k \in Keys |-> 0]]
                        ELSE g.bl[c]]]

\* Links to the removed row o are nullified (type_Link) or removed from the
\* list (type_LinkList); its backlink entries are dropped.
nullify_links_to(g, o) ==
    LET incoming(c) == c \in g.cols /\ Target(c) = o[1]
        res(c, k) == nullify_n([array |-> g.lk[c][k + 1], assert_failed |-> FALSE],
                               o[2], g.bl[c][o[2]][k])
    IN  [g EXCEPT
           !.lk = [c \in ColIds |->
                     IF ~incoming(c) THEN g.lk[c]
                     ELSE [s \in 1 .. NumKeys |->
                             IF g.bl[c][o[2]][s - 1] <= 0 THEN g.lk[c][s]
                             ELSE IF IsList(c) THEN res(c, s - 1).array
                             ELSE ArrayKey_set_null(g.lk[c], s - 1)[s]]],
           !.bl = [c \in ColIds |->
                     IF incoming(c)
                     THEN [g.bl[c] EXCEPT ![o[2]] = [k \in Keys |-> 0]]
                     ELSE g.bl[c]],
           !.failed = \/ g.failed
                      \/ \E c \in ColIds, k \in Keys :
                            /\ incoming(c) /\ IsList(c)
                            /\ g.bl[c][o[2]][k] > 0
                            /\ res(c, k).assert_failed]

\* erase() that counts the row out and leaves its key in the cluster.
erase_key_kept(g, o) == [g EXCEPT !.sz[o[1]] = @ - 1]

\* erase() that takes the key out and leaves the row count as it was.
erase_size_kept(g, o) ==
    [g EXCEPT !.cl[o[1]] = @ \ {o[2]},
              !.ks[o[1]] = SelectSeq(@, LAMBDA v : v # o[2])]

\* ClusterTree::erase(key): the key is no longer valid and leaves the
\* cluster it was in; the table has one row less.
erase(g, o) ==
    [g EXCEPT !.cl[o[1]] = @ \ {o[2]},
              !.ks[o[1]] = SelectSeq(@, LAMBDA v : v # o[2]),
              !.sz[o[1]] = @ - 1]

RECURSIVE remove_backlink_broken_rows(_, _)
remove_backlink_broken_rows(g, rows) ==
    IF rows = {} THEN g
    ELSE LET o == CHOOSE x \in rows : TRUE
         IN  remove_backlink_broken_rows(erase(nullify_links_to(g, o), o),
                                         rows \ {o})

\* remove_recursive() that removes the rows handed in and follows no link.
remove_recursive_flat(g, rows, mode) ==
    LET r == cascade_break_backlinks_to(g, rows, rows, "none")
    IN  remove_backlink_broken_rows(r.g, r.rows)

\* Table::remove_recursive(CascadeState&): remove the rows of the cascade
\* state and every row the cascade reaches from them.
remove_recursive(g, rows, mode) ==
    LET r == cascade_break_backlinks_to(g, rows, rows, mode)
    IN  remove_backlink_broken_rows(r.g, r.rows)

(***************************************************************************)
(* Object removal.                                                         *)
(***************************************************************************)
\* remove_object() that erases the object and cascades to nothing.
remove_object_no_cascade(g, t, key) == remove_recursive(g, {<<t, key>>}, "none")

\* remove_object() that follows every link, weak ones too.
remove_object_all_links(g, t, key) == remove_recursive(g, {<<t, key>>}, "all")

\* remove_object(): explicit removal; the links the object holds are
\* broken, so strong targets left without a strong link are cascade-removed.
remove_object(g, t, key) == remove_recursive(g, {<<t, key>>}, "strong")

\* remove_object_recursive() that stops after the rows the removed object
\* itself was the last one holding on to.
remove_object_recursive_once(g, t, key) ==
    LET o == <<t, key>>
        g1 == break_links_of(g, o)
        new == check_cascade_break_backlinks_to(g, g1, o, "all", {o})
        r == cascade_break_backlinks_to(g1, new, {o} \cup new, "none")
    IN  remove_backlink_broken_rows(r.g, r.rows)

\* remove_object_recursive(): also deletes linked rows when the removed
\* link was the last one holding on to the row, recursively.
remove_object_recursive(g, t, key) == remove_recursive(g, {<<t, key>>}, "all")

\* clear(): the effect is exactly as if each object had been removed
\* individually.
RECURSIVE clear_from(_, _, _)
clear_from(g, t, key) ==
    IF key >= NumKeys THEN g
    ELSE clear_from(IF is_valid(g, t, key) THEN remove_object(g, t, key) ELSE g,
                    t, key + 1)

\* clear() that erases the rows of the table and follows no link.
clear_no_cascade(g, t) == remove_recursive(g, {t} \X g.cl[t], "none")

\* clear(): one bulk pass; every row of the table enters the cascade state.
clear(g, t) == remove_recursive(g, {t} \X g.cl[t], "strong")

\* The rows a key list names.
RowsOf(t, keys) == {<<t, keys[i]>> : i \in DOMAIN keys}

\* batch_erase_rows() that erases the rows named and follows no link.
batch_erase_rows_no_cascade(g, t, keys) ==
    remove_recursive(g, RowsOf(t, keys), "none")

\* batch_erase_rows(keys): one bulk pass; the rows named enter the cascade
\* state together.
batch_erase_rows(g, t, keys) == remove_recursive(g, RowsOf(t, keys), "strong")

(***************************************************************************)
(* Link writes.                                                            *)
(***************************************************************************)
adj_backlink(bl, c, x, k, d) ==
    IF x = null_key THEN bl ELSE [bl EXCEPT ![c][x][k] = @ + d]

\* The check after a break that counts weak links to old as well.
cascade_after_break_any_link(g1, c, old) ==
    IF \/ old = null_key
       \/ g1.lt[c] # "link_Strong"
       \/ get_backlink_count(g1, Target(c), old, FALSE) > 0
    THEN g1
    ELSE remove_recursive(g1, {<<Target(c), old>>}, "strong")

\* The check after a break that does not look for other strong links.
cascade_after_break_always(g1, c, old) ==
    IF \/ old = null_key
       \/ g1.lt[c] # "link_Strong"
    THEN g1
    ELSE remove_recursive(g1, {<<Target(c), old>>}, "strong")

\* After a link of column c to row old was replaced or removed: nothing for
\* a weak column or when another strong link still points to old, else old
\* is cascade-removed.
cascade_after_break(g1, c, old) ==
    IF \/ old = null_key
       \/ g1.lt[c] # "link_Strong"
       \/ get_backlink_count(g1, Target(c), old, TRUE) > 0
    THEN g1
    ELSE remove_recursive(g1, {<<Target(c), old>>}, "strong")

\* set_link() that breaks the old link, cascade included, before it stores
\* the new one.
do_set_link_break_first(g, c, k, target) ==
    LET old == ArrayKey_get(g.lk[c], k)
        g1 == [g EXCEPT
                 !.lk[c] = ArrayKey_set_null(g.lk[c], k),
                 !.bl = adj_backlink(g.bl, c, old, k, -1)]
        g2 == cascade_after_break(g1, c, old)
    IN  IF /\ is_valid(g2, Origin(c), k)
           /\ (target = null_key \/ is_valid(g2, Target(c), target))
        THEN [g2 EXCEPT
                 !.lk[c] = ArrayKey_set(g2.lk[c], k, target),
                 !.bl = adj_backlink(g2.bl, c, target, k, 1)]
        ELSE g2

\* Row::set_link() / Row::nullify_link() (target = null_key) on a
\* type_Link column: the new link is stored first, then the old target is
\* looked at.
do_set_link(g, c, k, target) ==
    LET old == ArrayKey_get(g.lk[c], k)
        g1 == [g EXCEPT
                 !.lk[c] = ArrayKey_set(g.lk[c], k, target),
                 !.bl = adj_backlink(adj_backlink(g.bl, c, old, k, -1),
                                     c, target, k, 1)]
    IN  cascade_after_break(g1, c, old)

\* LinkView::add(): append a link to the list.
linklist_add(g, c, k, target) ==
    [g EXCEPT !.lk[c][k + 1] = ArrayKey_add(@, target),
              !.bl = adj_backlink(g.bl, c, target, k, 1)]

\* LinkView::set(): replace the link at position ndx.
linklist_set(g, c, k, ndx, target) ==
    LET old == ArrayKey_get(get_linklist(g, c, k), ndx)
        g1 == [g EXCEPT
                 !.lk[c][k + 1] = ArrayKey_set(@, ndx, target),
                 !.bl = adj_backlink(adj_backlink(g.bl, c, old, k, -1),
                                     c, target, k, 1)]
    IN  cascade_after_break(g1, c, old)

\* LinkView::remove_link(): erase the link at position ndx.
linklist_remove(g, c, k, ndx) ==
    LET old == ArrayKey_get(get_linklist(g, c, k), ndx)
        g1 == [g EXCEPT
                 !.lk[c][k + 1] = Array_erase(@, ndx),
                 !.bl = adj_backlink(g.bl, c, old, k, -1)]
    IN  cascade_after_break(g1, c, old)

\* LinkView::clear(): every link of the list is broken.
linklist_clear(g, c, k) ==
    LET g1 == [g EXCEPT
                 !.lk[c][k + 1] = <<>>,
                 !.bl[c] = [x \in Keys |->
                              [o \in Keys |->
                                 IF o = k THEN g.bl[c][x][o] - LinkCount(g, c, k, x)
                                 ELSE g.bl[c][x][o]]]]
        rows == {x \in Objects :
                    /\ x[1] = Target(c)
                    /\ LinkCount(g, c, k, x[2]) > 0
                    /\ g.lt[c] = "link_Strong"
                    /\ get_backlink_count(g1, x[1], x[2], TRUE) = 0}
    IN  remove_recursive(g1, rows, "strong")

(***************************************************************************)
(* Schema.                                                                 *)
(***************************************************************************)
max_column_name_length == 63

\* The name a link column gets when the caller's choice of name is not the
\* subject: one name per column, all different.
DefaultName(c) == <<"c", IF c = 1 THEN "1" ELSE IF c = 2 THEN "2" ELSE "3">>

\* get_column_count(): the public columns of table t (backlink columns are
\* not counted).
get_column_count(g, t) == Cardinality({c \in g.cols : Origin(c) = t})

\* The backlink columns table t holds.
BacklinkColumnCount(g, t) ==
    LET RECURSIVE Sum(_)
        Sum(cs) == IF cs = {} THEN 0
                   ELSE LET c == CHOOSE x \in cs : TRUE
                        IN  g.bcols[t][c] + Sum(cs \ {c})
    IN  Sum(ColIds)

\* insert_backlink_column(): the target table of column c gets one backlink
\* column for it.
insert_backlink_column(g, c) == [g EXCEPT !.bcols[Target(c)][c] = @ + 1]

\* erase_backlink_column(): the target table loses that backlink column.
erase_backlink_column(g, c) ==
    [g EXCEPT !.bcols[Target(c)][c] = IF @ > 0 THEN @ - 1 ELSE 0]

\* do_insert_column() for a link column: the column appears, empty, under
\* the given name, and its backlink column appears in the target table.
do_insert_column(g, c, name, lt) ==
    insert_backlink_column(
        [g EXCEPT !.cols = @ \cup {c}, !.lt[c] = lt, !.names[c] = name,
                  !.lk[c] = DefaultColumn(c), !.bl[c] = NoBacklinks], c)

\* add_column_link(): the link column and its backlink column appear, empty.
add_column_link(g, c, lt) == do_insert_column(g, c, DefaultName(c), lt)

rename_column(g, c, name) == [g EXCEPT !.names[c] = name]

\* get_column_index(name) # npos: a column of table t has that name.
name_in_use(g, t, name) ==
    \E c \in g.cols : Origin(c) = t /\ g.names[c] = name

\* The check on a new column name that only looks at its length.
column_name_ok_length_only(g, t, name) ==
    Len(name) <= max_column_name_length

\* A name is accepted when no column of the table has it and it is not
\* longer than max_column_name_length.
column_name_ok(g, t, name) ==
    /\ Len(name) <= max_column_name_length
    /\ ~name_in_use(g, t, name)

set_link_type(g, c, lt) == [g EXCEPT !.lt[c] = lt]

\* remove_column() that leaves the backlink column in the target table.
remove_column_keep_backlink(g, c) ==
    LET g1 == [g EXCEPT !.cols = @ \ {c}, !.lt[c] = "link_Weak",
                        !.names[c] = <<>>,
                        !.lk[c] = DefaultColumn(c), !.bl[c] = NoBacklinks]
        rows == {x \in Objects :
                    /\ x[1] = Target(c)
                    /\ \E k \in Keys : LinkCount(g, c, k, x[2]) > 0
                    /\ g.lt[c] = "link_Strong"
                    /\ get_backlink_count(g1, x[1], x[2], TRUE) = 0}
    IN  remove_recursive(g1, rows, "strong")

\* remove_column() that drops the links of the column without looking at
\* their targets.
remove_column_no_cascade(g, c) ==
    erase_backlink_column(
        [g EXCEPT !.cols = @ \ {c}, !.lt[c] = "link_Weak",
                  !.names[c] = <<>>,
                  !.lk[c] = DefaultColumn(c), !.bl[c] = NoBacklinks],
        c)

\* remove_column(): every link of the column is broken, then the column and
\* its backlink column are gone.
remove_column(g, c) ==
    LET g1 == erase_backlink_column(
                  [g EXCEPT !.cols = @ \ {c}, !.lt[c] = "link_Weak",
                            !.names[c] = <<>>,
                            !.lk[c] = DefaultColumn(c), !.bl[c] = NoBacklinks],
                  c)
        rows == {x \in Objects :
                    /\ x[1] = Target(c)
                    /\ \E k \in Keys : LinkCount(g, c, k, x[2]) > 0
                    /\ g.lt[c] = "link_Strong"
                    /\ get_backlink_count(g1, x[1], x[2], TRUE) = 0}
    IN  remove_recursive(g1, rows, "strong")

(***************************************************************************)
(* The state machine: one action per public call.                          *)
(***************************************************************************)
Call(op, t, k, c, ndx, target, lt) ==
    [op |-> op, t |-> t, k |-> k, c |-> c, ndx |-> ndx, target |-> target,
     lt |-> lt]

\* No call on record.
NoCall == Call("none", "", -1, 0, -1, -1, "")

\* What a call returns: err is "none" or the error the call failed with,
\* val the value returned (0 when the call returns nothing).
Result(err, val) == [err |-> err, val |-> val]
NoResult == Result("none", 0)

\* The group as constructed: both tables empty, no link column.
EmptyGraph ==
    [cl |-> [t \in Tables |-> {}], cols |-> {},
     lt |-> [c \in ColIds |-> "link_Weak"],
     lk |-> [c \in ColIds |-> DefaultColumn(c)],
     bl |-> [c \in ColIds |-> NoBacklinks], failed |-> FALSE,
     sz |-> [t \in Tables |-> 0], ks |-> [t \in Tables |-> <<>>],
     nk |-> [t \in Tables |-> -1],
     ver |-> [t \in Tables |-> 0], gver |-> 0,
     names |-> [c \in ColIds |-> <<>>],
     bcols |-> [t \in Tables |-> [c \in ColIds |-> 0]]]

InitTable ==
    /\ m_clusters = EmptyGraph.cl
    /\ m_next_key_value = EmptyGraph.nk
    /\ m_version = EmptyGraph.ver
    /\ version_global = EmptyGraph.gver
    /\ m_cols = EmptyGraph.cols
    /\ link_type = EmptyGraph.lt
    /\ m_names = EmptyGraph.names
    /\ m_backlink_cols = EmptyGraph.bcols
    /\ m_links = EmptyGraph.lk
    /\ m_backlinks = EmptyGraph.bl
    /\ assert_failed = FALSE
    /\ m_size = EmptyGraph.sz
    /\ m_keys = EmptyGraph.ks
    /\ last = NoCall
    /\ arg_keys = <<>>
    /\ result = NoResult
    /\ pre = EmptyGraph
    /\ retired = [t \in Tables |-> {}]

\* No accessor has been constructed yet.
NoRef ==
    [count |-> 0, constructed |-> FALSE, parent |-> FALSE, attached |-> FALSE,
     deletes |-> 0, handles |-> [th \in Threads |-> 0],
     pc |-> [th \in Threads |-> "idle"], lock |-> 0, uad |-> FALSE]

NoStep == [op |-> "none", th |-> 0]

InitRef ==
    /\ m_ref_count = NoRef.count
    /\ constructed = NoRef.constructed
    /\ has_parent = NoRef.parent
    /\ attached = NoRef.attached
    /\ deletes = NoRef.deletes
    /\ handles = NoRef.handles
    /\ pc = NoRef.pc
    /\ lock_owner = NoRef.lock
    /\ use_after_delete = NoRef.uad
    /\ ref_last = NoStep
    /\ ref_pre = NoRef

\* ArrayKey::create(): an empty array; no call has been made on it.
NoArrayCall == [op |-> "none", ndx |-> 0, value |-> 0, begin |-> 0, end |-> 0]

InitArrayKey ==
    /\ ak_array = <<>>
    /\ ak_failed = FALSE
    /\ ak_last = NoArrayCall
    /\ ak_result = 0
    /\ ak_pre = <<>>

\* Every accessor is unmarked and in step with the storage.
InitMarks ==
    /\ m_mark = [a \in Accessors |-> FALSE]
    /\ stale = {}
    /\ refreshed = {}
    /\ was_marked = {}

\* No bound has been asked for.
NoBoundCall == [op |-> "none", value |-> 0]

\* The integer column of a table without rows.
InitBounds ==
    /\ int_column = <<>>
    /\ bound_last = NoBoundCall
    /\ bound_result = 0

\* No request is under way.
InitCascade ==
    /\ cs_active = FALSE
    /\ cs_subject = <<>>
    /\ cs_graph = EmptyGraph
    /\ cs_todo = {}
    /\ cs_rows = {}
    /\ cs_enqueued = [o \in Objects |-> 0]

\* No bump is under way.
InitBump ==
    /\ bv_active = FALSE
    /\ bv_subject = "none"
    /\ bv_stack = <<>>
    /\ bv_visits = [t \in Tables |-> 0]

\* An empty cluster tree on which traverse() has not been called.
InitTraverse ==
    /\ tr_clusters = <<>>
    /\ tr_stops = {}
    /\ tr_called = FALSE
    /\ tr_visited = <<>>
    /\ tr_result = FALSE

\* No row accessor is bound to the table.
InitRows ==
    /\ m_row_accessors = 0
    /\ row_next = [r \in RowIds |-> 0]
    /\ row_table = [r \in RowIds |-> FALSE]
    /\ m_accessor_mutex = 0
    /\ row_pc = [r \in RowIds |-> "idle"]
    /\ tbl_pc = "idle"
    /\ tbl_op = "none"
    /\ tbl_cursor = 0
    /\ registered = {}
    /\ tbl_pre_chain = {}
    /\ tbl_delta = 0
    /\ tbl_done = "none"

Init ==
    /\ InitTable /\ InitRef /\ InitArrayKey /\ InitMarks /\ InitBounds
    /\ InitCascade /\ InitBump /\ InitTraverse /\ InitRows

\* The call's result becomes the state; the graph it started from and the
\* call itself are recorded in pre and last.
Assign(g2, call, keys, res) ==
    /\ m_clusters' = g2.cl
    /\ m_cols' = g2.cols
    /\ link_type' = g2.lt
    /\ m_names' = g2.names
    /\ m_backlink_cols' = g2.bcols
    /\ m_links' = g2.lk
    /\ m_backlinks' = g2.bl
    /\ assert_failed' = g2.failed
    /\ m_size' = g2.sz
    /\ m_keys' = g2.ks
    /\ m_next_key_value' = g2.nk
    /\ m_version' = g2.ver
    /\ version_global' = g2.gver
    /\ pre' = Graph
    /\ last' = call
    /\ arg_keys' = keys
    /\ result' = res
    /\ retired' = [t \in Tables |-> retired[t] \cup (m_clusters[t] \ g2.cl[t])]

\* A call is made when no call is recorded and no request is under way.
Done(g2, call, keys, res) ==
    /\ ~assert_failed
    /\ last = NoCall
    /\ ~cs_active
    /\ Assign(g2, call, keys, res)
    /\ UNCHANGED <<ref_vars, ak_vars, mark_vars, bound_vars, cascade_vars,
                   bump_vars,
                   traverse_vars,
                   row_vars>>

Commit(g2, call) == Done(g2, call, <<>>, NoResult)

\* pre and last only record the call that has just returned, and retired the
\* keys that removals took away; they are not state of the program.  The
\* record of the call is dropped before the next call, so that each call is
\* explored once per graph and not once per history.
Forget ==
    /\ last # NoCall
    /\ last' = NoCall
    /\ arg_keys' = <<>>
    /\ result' = NoResult
    /\ pre' = EmptyGraph
    /\ UNCHANGED <<m_clusters, m_next_key_value, m_cols, link_type, m_names,
                   m_backlink_cols, m_links, m_backlinks, assert_failed, m_size, m_keys, m_version,
                   version_global, retired>>
    /\ UNCHANGED <<ref_vars, ak_vars, mark_vars, bound_vars, cascade_vars,
                   bump_vars,
                   traverse_vars,
                   row_vars>>

\* A call that changes nothing returns res, or fails with the error in res.
Return(call, keys, res) ==
    /\ Done(Graph, call, keys, res)

\* insert() that puts the new key behind all the others.
insert_at_end(g, t, key) ==
    [g EXCEPT !.cl[t] = @ \cup {key},
              !.ks[t] = Append(@, key),
              !.sz[t] = @ + 1]

\* ClusterTree::insert(key): the key becomes valid and takes its place in
\* key order, before the first key greater than it; the table has one row
\* more.  The new row holds the defaults of every column.
insert(g, t, key) ==
    LET ks == g.ks[t]
        greater == {i \in 1 .. Len(ks) : ks[i] > key}
        pos == IF greater = {} THEN Len(ks) + 1
               ELSE CHOOSE i \in greater : \A j \in greater : i <= j
    IN  [g EXCEPT !.cl[t] = @ \cup {key},
                  !.ks[t] = SubSeq(ks, 1, pos - 1) \o <<key>>
                              \o SubSeq(ks, pos, Len(ks)),
                  !.sz[t] = @ + 1]

\* Key generation that hands out the counter's value whether or not an
\* object carries it.
next_key_counter(g, t) == IF g.nk[t] = -1 THEN 0 ELSE g.nk[t]

\* The key create_object() generates: the next unused key at or after the
\* allocation counter (-1: nothing allocated yet).
next_key(g, t) ==
    LET from == IF g.nk[t] = -1 THEN 0 ELSE g.nk[t]
        unused == {k \in from .. NumKeys : ~is_valid(g, t, k)}
    IN  CHOOSE k \in unused : \A j \in unused : k <= j

\* The counter after create_object(key) made the object k: a generated key
\* moves it past k, a key handed in leaves it alone.
allocated(g, t, key, k) ==
    IF key = null_key THEN [g EXCEPT !.nk[t] = k + 1] ELSE g

\* create_object(key) that does not look whether the key is in use: the
\* object that carried the key is removed and a new one put in its place.
create_object_overwrite(t, key) ==
    LET k == IF key = null_key THEN next_key(Graph, t) ELSE key
        g == IF is_valid(Graph, t, k) THEN remove_object(Graph, t, k)
             ELSE Graph
    IN  /\ k < NumKeys
        /\ Commit(insert(allocated(g, t, key, k), t, k),
                  Call("create_object", t, k, 0, -1, key, ""))

\* create_object(key): with the key omitted (null_key) the key is
\* generated; a key handed in must not be in use.
create_object(t, key) ==
    LET k == IF key = null_key THEN next_key(Graph, t) ELSE key
        call == Call("create_object", t, k, 0, -1, key, "")
    IN  /\ k < NumKeys
        /\ IF is_valid(Graph, t, k)
           THEN Return(call, <<>>, Result("DuplicateKey", 0))
           ELSE Commit(insert(allocated(Graph, t, key, k), t, k), call)

\* create_objects(number, keys): number objects with generated keys, made
\* one after the other; their keys are added to the vector keys.
RECURSIVE create_objects(_, _, _)
create_objects(g, t, number) ==
    IF number = 0 THEN [g |-> g, keys |-> <<>>]
    ELSE LET k == next_key(g, t)
             r == create_objects(insert(allocated(g, t, null_key, k), t, k),
                                 t, number - 1)
         IN  [g |-> r.g, keys |-> <<k>> \o r.keys]

\* The keys the bounded key space still has for create_objects.
FreeKeys(g, t) ==
    {k \in Keys : k >= g.nk[t] /\ ~is_valid(g, t, k)}

CreateObjects ==
    \E t \in Tables, number \in 1 .. NumKeys :
        /\ number <= Cardinality(FreeKeys(Graph, t))
        /\ LET r == create_objects(Graph, t, number)
           IN  Done(r.g, Call("create_objects", t, -1, 0, -1, -1, ""),
                    r.keys, NoResult)

AddColumnLink ==
    \E c \in ColIds \ m_cols, lt \in LinkTypes :
        /\ Cardinality(m_cols) < MaxLinkCols
        /\ Commit(add_column_link(Graph, c, lt),
                  Call("add_column_link", Origin(c), -1, c, -1, -1, lt))

SetLinkType ==
    \E c \in m_cols, lt \in LinkTypes :
        /\ lt # link_type[c]
        /\ Commit(set_link_type(Graph, c, lt),
                  Call("set_link_type", Origin(c), -1, c, -1, -1, lt))

RemoveColumn ==
    \E c \in m_cols :
        /\ Commit(remove_column(Graph, c),
                  Call("remove_column", Origin(c), -1, c, -1, -1, ""))

CreateObject ==
    \E t \in Tables : create_object(t, null_key)

\* Row::set_link(), and Row::nullify_link() when target = null_key.
SetLink ==
    \E c \in m_cols :
        /\ ~IsList(c)
        /\ \E k \in m_clusters[Origin(c)],
              target \in m_clusters[Target(c)] \cup {null_key} :
                /\ Commit(do_set_link(Graph, c, k, target),
                          Call("set_link", Origin(c), k, c, -1, target, ""))

LinkListAdd ==
    \E c \in m_cols :
        /\ IsList(c)
        /\ \E k \in m_clusters[Origin(c)], target \in m_clusters[Target(c)] :
                /\ Len(m_links[c][k + 1]) < MaxListLen
                /\ Commit(linklist_add(Graph, c, k, target),
                          Call("linklist_add", Origin(c), k, c, -1, target, ""))

LinkListSet ==
    \E c \in m_cols :
        /\ IsList(c)
        /\ \E k \in m_clusters[Origin(c)], target \in m_clusters[Target(c)] :
             \E ndx \in 0 .. (Len(m_links[c][k + 1]) - 1) :
                /\ Commit(linklist_set(Graph, c, k, ndx, target),
                          Call("linklist_set", Origin(c), k, c, ndx, target, ""))

LinkListRemove ==
    \E c \in m_cols :
        /\ IsList(c)
        /\ \E k \in m_clusters[Origin(c)] :
             \E ndx \in 0 .. (Len(m_links[c][k + 1]) - 1) :
                /\ Commit(linklist_remove(Graph, c, k, ndx),
                          Call("linklist_remove", Origin(c), k, c, ndx, -1, ""))

LinkListClear ==
    \E c \in m_cols :
        /\ IsList(c)
        /\ \E k \in m_clusters[Origin(c)] :
                /\ m_links[c][k + 1] # <<>>
                /\ Commit(linklist_clear(Graph, c, k),
                          Call("linklist_clear", Origin(c), k, c, -1, -1, ""))

\* remove_object(key) that does not look whether the key is valid.
RemoveObjectUnchecked ==
    \E t \in Tables, k \in Keys :
        Commit(remove_object(Graph, t, k),
               Call("remove_object", t, k, 0, -1, -1, ""))

\* remove_object(key); a key that is not valid is an error.
RemoveObject ==
    \E t \in Tables, k \in Keys :
        IF is_valid(Graph, t, k)
        THEN /\ Commit(remove_object(Graph, t, k),
                       Call("remove_object", t, k, 0, -1, -1, ""))
        ELSE Return(Call("remove_object", t, k, 0, -1, -1, ""), <<>>,
                    Result("KeyNotFound", 0))

RemoveObjectRecursive ==
    \E t \in Tables : \E k \in m_clusters[t] :
        /\ Commit(remove_object_recursive(Graph, t, k),
                  Call("remove_object_recursive", t, k, 0, -1, -1, ""))

Clear ==
    \E t \in Tables :
        /\ m_clusters[t] # {}
        /\ Commit(clear(Graph, t), Call("clear", t, -1, 0, -1, -1, ""))

\* The ascending key lists over the keys of S.
RECURSIVE SortedSeq(_)
SortedSeq(S) ==
    IF S = {} THEN <<>>
    ELSE LET m == CHOOSE k \in S : \A j \in S : k <= j
         IN  <<m>> \o SortedSeq(S \ {m})

\* batch_erase_rows() with an ascending list of valid keys.
BatchEraseRows ==
    \E t \in Tables : \E S \in SUBSET m_clusters[t] :
        /\ S # {}
        /\ Done(batch_erase_rows(Graph, t, SortedSeq(S)),
                Call("batch_erase_rows", t, -1, 0, -1, -1, ""),
                SortedSeq(S), NoResult)

\* get_object(key): the object, or an error when the key is not valid.
GetObject ==
    \E t \in Tables, k \in Keys :
        Return(Call("get_object", t, k, 0, -1, -1, ""), <<>>,
               IF is_valid(Graph, t, k) THEN Result("none", <<t, k>>)
               ELSE Result("KeyNotFound", 0))

\* is_valid(key).
IsValid ==
    \E t \in Tables, k \in Keys :
        Return(Call("is_valid", t, k, 0, -1, -1, ""), <<>>,
               Result("none", is_valid(Graph, t, k)))

\* size() and is_empty().
Size ==
    \E t \in Tables :
        Return(Call("size", t, -1, 0, -1, -1, ""), <<>>,
               Result("none", [size |-> m_size[t], is_empty |-> m_size[t] = 0]))

\* Iteration from begin() to end(): the keys met, in the order met.
Iterate ==
    \E t \in Tables :
        Return(Call("iterate", t, -1, 0, -1, -1, ""), <<>>,
               Result("none", m_keys[t]))

\* create_object(key) with the key of a live object.  Supplied keys that no
\* live object carries are explored in SpecKeys.
CreateObjectDuplicate ==
    \E t \in Tables, key \in Keys :
        /\ is_valid(Graph, t, key)
        /\ create_object(t, key)

Next ==
    \/ CreateObject
    \/ CreateObjectDuplicate
    \/ CreateObjects
    \/ AddColumnLink
    \/ SetLinkType
    \/ RemoveColumn
    \/ SetLink
    \/ LinkListAdd
    \/ LinkListSet
    \/ LinkListRemove
    \/ LinkListClear
    \/ RemoveObject
    \/ RemoveObjectRecursive
    \/ Clear
    \/ BatchEraseRows
    \/ GetObject
    \/ IsValid
    \/ Size
    \/ Iterate
    \/ Forget

Spec == Init /\ [][Next]_vars

(***************************************************************************)
(* The object store with keys handed in by the caller.  SpecKeys follows   *)
(* the keys of the two tables through creations with and without a key,    *)
(* removals and reads, with single-link columns for the stored values.     *)
(***************************************************************************)
\* create_object(key) with a key handed in.
CreateObjectWithKey ==
    \E t \in Tables, key \in Keys : create_object(t, key)

NextKeys ==
    \/ CreateObject
    \/ CreateObjectWithKey
    \/ CreateObjects
    \/ RemoveObject
    \/ Clear
    \/ GetObject
    \/ IsValid
    \/ Size
    \/ Iterate
    \/ Forget

SpecKeys == Init /\ [][NextKeys]_vars

(***************************************************************************)
(* Version counters.  Spec and SpecKeys leave the counters at 0: no call   *)
(* reads them to decide anything.  SpecVersion makes the same calls and    *)
(* ends every mutating one with bump_version() on the table called.        *)
(***************************************************************************)
\* Allocator::bump_global_version().
bump_global_version(g) == [g EXCEPT !.gver = @ + 1]

\* Allocator::should_propagate_version(m_version): the table has not yet
\* seen the global version.
should_propagate_version(g, t) == g.ver[t] # g.gver

\* ... and takes it over (m_version is handed over by reference).
propagated_version(g, t) == [g EXCEPT !.ver[t] = g.gver]

\* bump_version() that bumps the global version and leaves m_version alone.
bump_version_global_only(g, t, bump_global) ==
    IF bump_global THEN bump_global_version(g) ELSE g

\* Table::bump_version(bump_global): this table and, through its backlink
\* columns, all tables which have links to it.  A table of the group has no
\* parent table.
RECURSIVE bump_version(_, _, _)
RECURSIVE bump_link_origin_table_version(_, _)
bump_link_origin_table_version(g, cs) ==
    IF cs = {} THEN g
    ELSE LET c == CHOOSE x \in cs : TRUE
         IN  bump_link_origin_table_version(bump_version(g, Origin(c), FALSE),
                                            cs \ {c})

bump_version(g, t, bump_global) ==
    LET g1 == IF bump_global THEN bump_global_version(g) ELSE g
    IN  IF should_propagate_version(g1, t)
        THEN bump_link_origin_table_version(
                 propagated_version(g1, t),
                 {c \in g1.cols : Target(c) = t})
        ELSE g1

\* A mutating call on table t that leaves graph g2 returns.
Changed(g2, t, call) ==
    /\ version_global < MaxVersion
    /\ Commit(bump_version(g2, t, TRUE), call)

CreateObjectBump ==
    \E t \in Tables :
        LET k == next_key(Graph, t)
        IN  /\ k < NumKeys
            /\ Changed(insert(allocated(Graph, t, null_key, k), t, k), t,
                       Call("create_object", t, k, 0, -1, null_key, ""))

RemoveObjectBump ==
    \E t \in Tables, k \in Keys :
        IF is_valid(Graph, t, k)
        THEN Changed(remove_object(Graph, t, k), t,
                     Call("remove_object", t, k, 0, -1, -1, ""))
        ELSE Return(Call("remove_object", t, k, 0, -1, -1, ""), <<>>,
                    Result("KeyNotFound", 0))

RemoveObjectRecursiveBump ==
    \E t \in Tables : \E k \in m_clusters[t] :
        Changed(remove_object_recursive(Graph, t, k), t,
                Call("remove_object_recursive", t, k, 0, -1, -1, ""))

ClearBump ==
    \E t \in Tables :
        Changed(clear(Graph, t), t, Call("clear", t, -1, 0, -1, -1, ""))

AddColumnLinkBump ==
    \E c \in ColIds \ m_cols, lt \in LinkTypes :
        /\ Cardinality(m_cols) < MaxLinkCols
        /\ Changed(add_column_link(Graph, c, lt), Origin(c),
                   Call("add_column_link", Origin(c), -1, c, -1, -1, lt))

RemoveColumnBump ==
    \E c \in m_cols :
        Changed(remove_column(Graph, c), Origin(c),
                Call("remove_column", Origin(c), -1, c, -1, -1, ""))

\* rename_column() to a name that is accepted.
RenameColumnBump ==
    \E c \in m_cols : \E name \in {<<"a">>, DefaultName(c)} :
        /\ column_name_ok(Graph, Origin(c), name)
        /\ Changed(rename_column(Graph, c, name), Origin(c),
                   Call("rename_column", Origin(c), -1, c, -1, -1, ""))

SetLinkBump ==
    \E c \in m_cols, k \in Keys, target \in Keys \cup {null_key} :
        /\ ~IsList(c)
        /\ is_valid(Graph, Origin(c), k)
        /\ target # null_key => is_valid(Graph, Target(c), target)
        /\ Changed(do_set_link(Graph, c, k, target), Origin(c),
                   Call("set_link", Origin(c), k, c, -1, target, ""))

\* get_version_counter().
GetVersionCounter ==
    \E t \in Tables :
        Return(Call("get_version_counter", t, -1, 0, -1, -1, ""), <<>>,
               Result("none", m_version[t]))

NextVersion ==
    \/ CreateObjectBump
    \/ RemoveObjectBump
    \/ RemoveObjectRecursiveBump
    \/ ClearBump
    \/ AddColumnLinkBump
    \/ RemoveColumnBump
    \/ RenameColumnBump
    \/ SetLinkBump
    \/ GetObject
    \/ IsValid
    \/ Size
    \/ Iterate
    \/ GetVersionCounter
    \/ Forget

SpecVersion == Init /\ [][NextVersion]_vars

(***************************************************************************)
(* Reference counting and attachment of one table accessor                 *)
(* (Table::bind_ptr, Table::unbind_ptr, Table::detach).  A step is one     *)
(* atomic operation of the code; SpecRef interleaves the steps of the      *)
(* threads, SpecRefCalls runs every call to its end.                       *)
(***************************************************************************)
\* The accessor as one value.
Ref == [count |-> m_ref_count, constructed |-> constructed,
        parent |-> has_parent, attached |-> attached, deletes |-> deletes,
        handles |-> handles, pc |-> pc, lock |-> lock_owner,
        uad |-> use_after_delete]

RECURSIVE SumHandles(_, _)
SumHandles(h, S) ==
    IF S = {} THEN 0
    ELSE LET th == CHOOSE x \in S : TRUE
         IN  h[th] + SumHandles(h, S \ {th})

\* The handles outstanding.
Outstanding(r) == SumHandles(r.handles, Threads)

\* Table(ref_count_tag, Allocator&) and init(): m_ref_count = 0, attached.
Table_ref_count_tag(r, parent) ==
    [r EXCEPT !.constructed = TRUE, !.parent = parent, !.attached = TRUE,
              !.count = 0]

\* bind_ptr(): m_ref_count.fetch_add(1); thread th has one handle more.
bind_ptr(r, th) ==
    [r EXCEPT !.count = @ + 1, !.handles[th] = @ + 1,
              !.uad = @ \/ r.deletes > 0]

\* unbind_ptr() that takes the count for the last one when another handle
\* is still out.
unbind_fetch_sub_early(r, th) ==
    [r EXCEPT !.count = @ - 1, !.handles[th] = @ - 1,
              !.pc[th] = IF r.count > 2 THEN "idle" ELSE "zero",
              !.uad = @ \/ r.deletes > 0]

\* unbind_ptr(), first step: m_ref_count.fetch_sub(1) != 1 returns; the
\* thread that took the count to zero goes on.
unbind_fetch_sub(r, th) ==
    [r EXCEPT !.count = @ - 1, !.handles[th] = @ - 1,
              !.pc[th] = IF r.count # 1 THEN "idle" ELSE "zero",
              !.uad = @ \/ r.deletes > 0]

\* get_parent_accessor_management_lock(): reads the accessor.
unbind_get_lock(r, th) ==
    [r EXCEPT !.pc[th] = IF r.parent THEN "lock" ELSE "delete",
              !.uad = @ \/ r.deletes > 0]

\* std::lock_guard lg(*lock).
unbind_lock(r, th) == [r EXCEPT !.lock = th, !.pc[th] = "check"]

\* ~Table(): the accessor is detached and gone.
delete_this(r) == [r EXCEPT !.deletes = @ + 1, !.attached = FALSE]

\* if (m_ref_count == 0) delete this; the lock guard releases the lock.
\* is_zero is what the read of m_ref_count yields: the count, or anything
\* when the accessor has been deleted.
unbind_check(r, th, is_zero) ==
    LET r1 == [r EXCEPT !.lock = 0, !.pc[th] = "idle",
                        !.uad = @ \/ r.deletes > 0]
    IN  IF is_zero THEN delete_this(r1) ELSE r1

\* else delete this.
unbind_delete(r, th) == delete_this([r EXCEPT !.pc[th] = "idle"])

\* unbind_ptr() from its first step to its return, nothing in between.
unbind_ptr(r, th) ==
    LET r1 == unbind_fetch_sub(r, th)
        r2 == unbind_get_lock(r1, th)
        r3 == unbind_lock(r2, th)
    IN  IF r1.pc[th] = "idle" THEN r1
        ELSE IF r2.pc[th] = "delete" THEN unbind_delete(r2, th)
        ELSE unbind_check(r3, th, r3.count = 0)

\* detach() that attaches a detached accessor again.
detach_toggle(r) == [r EXCEPT !.attached = ~@]

\* detach(): the accessor is in the detached state.
detach(r) == [r EXCEPT !.attached = FALSE]

\* A step on the accessor ends with r2; nothing runs once the process has
\* read or deleted a deleted accessor.
RefStep(r2, op, th) ==
    /\ ~use_after_delete
    /\ deletes <= 1
    /\ m_ref_count' = r2.count
    /\ constructed' = r2.constructed
    /\ has_parent' = r2.parent
    /\ attached' = r2.attached
    /\ deletes' = r2.deletes
    /\ handles' = r2.handles
    /\ pc' = r2.pc
    /\ lock_owner' = r2.lock
    /\ use_after_delete' = r2.uad
    /\ ref_last' = [op |-> op, th |-> th]
    /\ ref_pre' = Ref
    /\ UNCHANGED <<table_vars, ak_vars, mark_vars, bound_vars, cascade_vars,
                   bump_vars,
                   traverse_vars,
                   row_vars>>

\* Table::create(): a free-standing table, and the first handle to it.
Create ==
    \E th \in Threads :
        /\ ~constructed
        /\ RefStep(bind_ptr(Table_ref_count_tag(Ref, FALSE), th), "create", th)

\* The parent makes the accessor when it is first asked for, under its
\* lock, and hands out the first handle.
CreateInParent ==
    \E th \in Threads :
        /\ ~constructed
        /\ RefStep(bind_ptr(Table_ref_count_tag(Ref, TRUE), th),
                   "create_in_parent", th)

\* A new handle from the parent, under its lock: the parent knows the
\* accessor until its destructor or detach() has run.
GetFromParent ==
    \E th \in Threads :
        /\ constructed /\ has_parent /\ attached /\ deletes = 0
        /\ lock_owner = 0
        /\ Outstanding(Ref) < MaxHandles
        /\ RefStep(bind_ptr(Ref, th), "get_from_parent", th)

\* A handle is copied.
BindPtr ==
    \E th \in Threads :
        /\ handles[th] > 0
        /\ Outstanding(Ref) < MaxHandles
        /\ RefStep(bind_ptr(Ref, th), "bind_ptr", th)

UnbindFetchSub ==
    \E th \in Threads :
        /\ handles[th] > 0 /\ pc[th] = "idle"
        /\ RefStep(unbind_fetch_sub(Ref, th), "unbind_fetch_sub", th)

UnbindGetLock ==
    \E th \in Threads :
        /\ pc[th] = "zero"
        /\ RefStep(unbind_get_lock(Ref, th), "unbind_get_lock", th)

UnbindLock ==
    \E th \in Threads :
        /\ pc[th] = "lock" /\ lock_owner = 0
        /\ RefStep(unbind_lock(Ref, th), "unbind_lock", th)

UnbindCheck ==
    \E th \in Threads, is_zero \in BOOLEAN :
        /\ pc[th] = "check"
        /\ deletes = 0 => is_zero = (m_ref_count = 0)
        /\ RefStep(unbind_check(Ref, th, is_zero), "unbind_check", th)

UnbindDelete ==
    \E th \in Threads :
        /\ pc[th] = "delete"
        /\ RefStep(unbind_delete(Ref, th), "unbind_delete", th)

\* The whole of unbind_ptr() as one call.
UnbindPtr ==
    \E th \in Threads :
        /\ handles[th] > 0
        /\ RefStep(unbind_ptr(Ref, th), "unbind_ptr", th)

\* The parent detaches the accessor (the table is removed from the group,
\* or the group is destroyed); a handle is out, as detach() requires.
Detach ==
    /\ constructed /\ has_parent /\ deletes = 0
    /\ Outstanding(Ref) > 0
    /\ RefStep(detach(Ref), "detach", 0)

\* is_attached().
IsAttached ==
    /\ constructed /\ deletes = 0
    /\ RefStep(Ref, "is_attached", 0)

NextRef ==
    \/ Create
    \/ CreateInParent
    \/ GetFromParent
    \/ BindPtr
    \/ UnbindFetchSub
    \/ UnbindGetLock
    \/ UnbindLock
    \/ UnbindCheck
    \/ UnbindDelete

SpecRef == Init /\ [][NextRef]_vars

NextRefCalls ==
    \/ Create
    \/ CreateInParent
    \/ GetFromParent
    \/ BindPtr
    \/ UnbindPtr
    \/ Detach
    \/ IsAttached

SpecRefCalls == Init /\ [][NextRefCalls]_vars

(***************************************************************************)
(* Column names (add_column_link, insert_column_link, rename_column,       *)
(* remove_column).  SpecSchema lets the caller choose the name.            *)
(***************************************************************************)
\* A name of n code units.
NameOfLength(n) == [i \in 1 .. n |-> "n"]

\* The names a caller tries: two short ones, the longest name allowed and
\* the shortest name that is too long.
ColumnNames ==
    {<<"a">>, <<"b">>, NameOfLength(max_column_name_length),
     NameOfLength(max_column_name_length + 1)}

CallNamed(op, c, lt, name) ==
    [op |-> op, t |-> Origin(c), k |-> -1, c |-> c, ndx |-> -1,
     target |-> -1, lt |-> lt, name |-> name]

\* add_column_link() that has inserted the backlink column in the target
\* table when the name is rejected.
AddColumnLinkNamedPartial ==
    \E c \in ColIds \ m_cols, lt \in LinkTypes, name \in ColumnNames,
       op \in {"add_column_link", "insert_column_link"} :
        /\ Cardinality(m_cols) < MaxLinkCols
        /\ IF column_name_ok(Graph, Origin(c), name)
           THEN Commit(do_insert_column(Graph, c, name, lt),
                       CallNamed(op, c, lt, name))
           ELSE Done(insert_backlink_column(Graph, c),
                     CallNamed(op, c, lt, name), <<>>,
                     Result("DuplicateName", 0))

\* add_column_link(target, name, link_type) and insert_column_link(): the
\* name is checked, then the column and its backlink column are inserted.
AddColumnLinkNamed ==
    \E c \in ColIds \ m_cols, lt \in LinkTypes, name \in ColumnNames,
       op \in {"add_column_link", "insert_column_link"} :
        /\ Cardinality(m_cols) < MaxLinkCols
        /\ IF column_name_ok(Graph, Origin(c), name)
           THEN Commit(do_insert_column(Graph, c, name, lt),
                       CallNamed(op, c, lt, name))
           ELSE Return(CallNamed(op, c, lt, name), <<>>,
                       Result("DuplicateName", 0))

\* rename_column(col_ndx, name).
RenameColumn ==
    \E c \in m_cols, name \in ColumnNames :
        IF column_name_ok(Graph, Origin(c), name)
        THEN Commit(rename_column(Graph, c, name),
                    CallNamed("rename_column", c, "", name))
        ELSE Return(CallNamed("rename_column", c, "", name), <<>>,
                    Result("DuplicateName", 0))

NextSchema ==
    \/ AddColumnLinkNamed
    \/ RenameColumn
    \/ RemoveColumn
    \/ CreateObject
    \/ Forget

SpecSchema == Init /\ [][NextSchema]_vars

(***************************************************************************)
(* One ArrayKey, called with any key value and any index in range.         *)
(***************************************************************************)
\* A call on the array returns res and leaves array a2.
ArrayStep(a2, failed, op, ndx, value, begin, end, res) ==
    /\ ~ak_failed
    /\ ak_last = NoArrayCall
    /\ ak_array' = a2
    /\ ak_failed' = failed
    /\ ak_last' = [op |-> op, ndx |-> ndx, value |-> value, begin |-> begin,
                   end |-> end]
    /\ ak_result' = res
    /\ ak_pre' = ak_array
    /\ UNCHANGED <<table_vars, ref_vars, mark_vars, bound_vars, cascade_vars,
                   bump_vars,
                   traverse_vars,
                   row_vars>>

ArrayKeyAdd ==
    \E value \in KeyValues :
        /\ Len(ak_array) < MaxArrayLen
        /\ ArrayStep(ArrayKey_add(ak_array, value), FALSE,
                     "add", Len(ak_array), value, 0, 0, 0)

ArrayKeySet ==
    \E ndx \in 0 .. (Len(ak_array) - 1), value \in KeyValues :
        ArrayStep(ArrayKey_set(ak_array, ndx, value), FALSE,
                  "set", ndx, value, 0, 0, 0)

ArrayKeySetNull ==
    \E ndx \in 0 .. (Len(ak_array) - 1) :
        ArrayStep(ArrayKey_set_null(ak_array, ndx), FALSE,
                  "set_null", ndx, 0, 0, 0, 0)

ArrayKeyInsert ==
    \E ndx \in 0 .. Len(ak_array), value \in KeyValues :
        /\ Len(ak_array) < MaxArrayLen
        /\ ArrayStep(ArrayKey_insert(ak_array, ndx, value), FALSE,
                     "insert", ndx, value, 0, 0, 0)

ArrayKeyGet ==
    \E ndx \in 0 .. (Len(ak_array) - 1) :
        ArrayStep(ak_array, FALSE, "get", ndx, 0, 0, 0,
                  ArrayKey_get(ak_array, ndx))

ArrayKeyIsNull ==
    \E ndx \in 0 .. (Len(ak_array) - 1) :
        ArrayStep(ak_array, FALSE, "is_null", ndx, 0, 0, 0,
                  ArrayKey_is_null(ak_array, ndx))

ArrayKeyFindFirst ==
    \E value \in KeyValues, end \in 0 .. Len(ak_array) :
        \E begin \in 0 .. end :
            ArrayStep(ak_array, FALSE, "find_first", 0, value, begin, end,
                      ArrayKey_find_first(ak_array, value, begin, end))

ArrayKeyNullify ==
    \E key \in KeyValues :
        LET r == ArrayKey_nullify(ak_array, key)
        IN  ArrayStep(r.array, r.assert_failed, "nullify", 0, key, 0, 0, 0)

\* The record of the call that has returned is dropped before the next
\* call.
ArrayForget ==
    /\ ak_last # NoArrayCall
    /\ ~ak_failed
    /\ ak_last' = NoArrayCall
    /\ ak_result' = 0
    /\ ak_pre' = <<>>
    /\ UNCHANGED <<ak_array, ak_failed, table_vars, ref_vars, mark_vars,
                   bound_vars, cascade_vars,
                   bump_vars,
                   traverse_vars,
                   row_vars>>

NextArrayKey ==
    \/ ArrayKeyAdd
    \/ ArrayKeySet
    \/ ArrayKeySetNull
    \/ ArrayKeyInsert
    \/ ArrayKeyGet
    \/ ArrayKeyIsNull
    \/ ArrayKeyFindFirst
    \/ ArrayKeyNullify
    \/ ArrayForget

SpecArrayKey == Init /\ [][NextArrayKey]_vars

(***************************************************************************)
(* Mark and refresh across a transaction boundary (Table::mark, unmark,    *)
(* is_marked, refresh_accessor_tree).                                      *)
(***************************************************************************)
\* The marks and what they are about, as one value.
Marks == [mark |-> m_mark, stale |-> stale, refreshed |-> refreshed]

is_marked(m, a) == m.mark[a]

mark(m, a) == [m EXCEPT !.mark[a] = TRUE]

unmark(m, a) == [m EXCEPT !.mark[a] = FALSE]

\* refresh_accessor_tree() that refreshes every subtable accessor, marked
\* or not.
RECURSIVE refresh_accessor_tree_all(_, _)
RECURSIVE refresh_subtables_all(_, _)
refresh_accessor_tree_all(m, a) ==
    refresh_subtables_all(
        unmark([m EXCEPT !.stale = @ \ {a}, !.refreshed = @ \cup {a}], a),
        {c \in Accessors : AccessorParent(c) = a})

refresh_subtables_all(m, cs) ==
    IF cs = {} THEN m
    ELSE LET c == CHOOSE x \in cs : TRUE
         IN  refresh_subtables_all(refresh_accessor_tree_all(m, c), cs \ {c})

\* refresh_accessor_tree(): this accessor is refreshed, its subtable
\* accessors are refreshed if they are marked, and so on down the tree;
\* every accessor refreshed is unmarked.
RECURSIVE refresh_accessor_tree(_, _)
RECURSIVE refresh_subtables(_, _)
refresh_accessor_tree(m, a) ==
    refresh_subtables(
        unmark([m EXCEPT !.stale = @ \ {a}, !.refreshed = @ \cup {a}], a),
        {c \in Accessors : AccessorParent(c) = a})

refresh_subtables(m, cs) ==
    IF cs = {} THEN m
    ELSE LET c == CHOOSE x \in cs : TRUE
             m1 == IF is_marked(m, c) THEN refresh_accessor_tree(m, c) ELSE m
         IN  refresh_subtables(m1, cs \ {c})

\* Accessor a has to be marked: it is stale, or a subtable accessor of it
\* is marked.
NeedsMark(a) ==
    \/ a \in stale
    \/ \E c \in Accessors : AccessorParent(c) = a /\ m_mark[c]

MarkStep(m2, marked) ==
    /\ m_mark' = m2.mark
    /\ stale' = m2.stale
    /\ refreshed' = m2.refreshed
    /\ was_marked' = marked
    /\ UNCHANGED <<table_vars, ref_vars, ak_vars, bound_vars, cascade_vars,
                   bump_vars,
                   traverse_vars,
                   row_vars>>

\* A transaction moves the storage of accessor a.  No accessor is marked
\* while transactions run; what the last boundary did is forgotten.
Change ==
    \E a \in Accessors \ stale :
        /\ \A b \in Accessors : ~m_mark[b]
        /\ MarkStep([Marks EXCEPT !.stale = @ \cup {a}, !.refreshed = {}], {})

\* Step 1 of the boundary: mark(), on an accessor that has to be marked.
Mark ==
    \E a \in Accessors :
        /\ refreshed = {}
        /\ NeedsMark(a)
        /\ ~m_mark[a]
        /\ MarkStep(mark(Marks, a), was_marked \cup {a})

\* Steps 2 and 3, once marking is complete: refresh_accessor_tree() on a
\* group-level table that is marked.
RefreshAccessorTree ==
    \E a \in Accessors :
        /\ \A b \in Accessors : NeedsMark(b) => m_mark[b]
        /\ AccessorParent(a) = "group"
        /\ m_mark[a]
        /\ MarkStep(refresh_accessor_tree(Marks, a), was_marked)

NextRefresh ==
    \/ Change
    \/ Mark
    \/ RefreshAccessorTree

SpecRefresh == Init /\ [][NextRefresh]_vars

(***************************************************************************)
(* lower_bound_int() and upper_bound_int() on one integer column.  The     *)
(* column is any column of up to MaxRows rows, sorted or not; the search   *)
(* is the binary search of std::lower_bound() and std::upper_bound().      *)
(***************************************************************************)
IntValues == 0 .. MaxIntValue

\* The binary search: rows before low are on the left of the bound, rows
\* from high on are on its right.  With or_equal, rows equal to value are
\* on the left (upper bound), without it on the right (lower bound).
RECURSIVE bound_search(_, _, _, _, _)
bound_search(col, value, low, high, or_equal) ==
    IF low >= high THEN low
    ELSE LET mid == low + ((high - low) \div 2)
             left == \/ col[mid + 1] < value
                     \/ or_equal /\ col[mid + 1] = value
         IN  IF left THEN bound_search(col, value, mid + 1, high, or_equal)
             ELSE bound_search(col, value, low, mid, or_equal)

\* lower_bound_int() that takes rows equal to the value to be before the
\* bound.
lower_bound_int_or_equal(col, value) ==
    bound_search(col, value, 0, Len(col), TRUE)

lower_bound_int(col, value) == bound_search(col, value, 0, Len(col), FALSE)

upper_bound_int(col, value) == bound_search(col, value, 0, Len(col), TRUE)

\* The columns to search: every column of up to MaxRows rows.
InitBoundInputs ==
    /\ int_column \in UNION {[1 .. n -> IntValues] : n \in 0 .. MaxRows}
    /\ bound_last = NoBoundCall
    /\ bound_result = 0

BoundStep(op, value, res) ==
    /\ bound_last' = [op |-> op, value |-> value]
    /\ bound_result' = res
    /\ UNCHANGED <<int_column, table_vars, ref_vars, ak_vars, mark_vars,
                   cascade_vars,
                   bump_vars,
                   traverse_vars,
                   row_vars>>

LowerBoundInt ==
    \E value \in -1 .. (MaxIntValue + 1) :
        BoundStep("lower_bound_int", value, lower_bound_int(int_column, value))

UpperBoundInt ==
    \E value \in -1 .. (MaxIntValue + 1) :
        BoundStep("upper_bound_int", value, upper_bound_int(int_column, value))

NextBounds ==
    \/ LowerBoundInt
    \/ UpperBoundInt

\* A table with an integer column of any values.
InitOfBounds ==
    /\ InitTable /\ InitRef /\ InitArrayKey /\ InitMarks /\ InitBoundInputs
    /\ InitCascade /\ InitBump /\ InitTraverse /\ InitRows

SpecBounds ==
    /\ InitOfBounds
    /\ [][NextBounds]_vars

(***************************************************************************)
(* remove_object_recursive() step by step: one row of the cascade state is *)
(* looked at per step (Table::remove_recursive(CascadeState&)).            *)
(***************************************************************************)
\* One step that lets a row enter the cascade state again.
cascade_step_revisit(g, o, rows, mode) ==
    LET g1 == break_links_of(g, o)
    IN  [g |-> g1,
         new |-> check_cascade_break_backlinks_to(g, g1, o, mode, {})]

\* One step: the links row o holds are broken; the targets this leaves
\* without a holder, and that are not in the cascade state, are new.
cascade_step(g, o, rows, mode) ==
    LET g1 == break_links_of(g, o)
    IN  [g |-> g1,
         new |-> check_cascade_break_backlinks_to(g, g1, o, mode, rows)]

\* remove_object_recursive(key) is called: the row enters the cascade state.
CascadeBegin ==
    \E t \in Tables : \E k \in m_clusters[t] :
        /\ ~assert_failed
        /\ last = NoCall
        /\ ~cs_active
        /\ cs_active' = TRUE
        /\ cs_subject' = <<t, k>>
        /\ cs_graph' = Graph
        /\ cs_todo' = {<<t, k>>}
        /\ cs_rows' = {<<t, k>>}
        /\ cs_enqueued' = [o \in Objects |-> IF o = <<t, k>> THEN 1 ELSE 0]
        /\ UNCHANGED <<table_vars, ref_vars, ak_vars, mark_vars, bound_vars,
                   bump_vars,
                   traverse_vars,
                   row_vars>>

CascadeStep ==
    \E o \in cs_todo :
        /\ cs_active
        /\ \A x \in Objects : cs_enqueued[x] < MaxEnqueued
        /\ LET r == cascade_step(cs_graph, o, cs_rows, "all")
           IN  /\ cs_graph' = r.g
               /\ cs_todo' = (cs_todo \ {o}) \cup r.new
               /\ cs_rows' = cs_rows \cup r.new
               /\ cs_enqueued' = [x \in Objects |->
                                    IF x \in r.new THEN cs_enqueued[x] + 1
                                    ELSE cs_enqueued[x]]
        /\ UNCHANGED <<cs_active, cs_subject, table_vars, ref_vars, ak_vars,
                       mark_vars, bound_vars,
                   bump_vars,
                   traverse_vars,
                   row_vars>>

\* Nothing is left to follow: the rows of the cascade state are removed and
\* the call returns.
CascadeFinish ==
    /\ cs_active
    /\ cs_todo = {}
    /\ \E g2 \in {remove_backlink_broken_rows(cs_graph, cs_rows)} :
           Assign(g2,
                  Call("remove_object_recursive", cs_subject[1],
                       cs_subject[2], 0, -1, -1, ""),
                  <<>>, NoResult)
    /\ cs_active' = FALSE
    /\ cs_subject' = <<>>
    /\ cs_graph' = EmptyGraph
    /\ cs_todo' = {}
    /\ cs_rows' = {}
    /\ cs_enqueued' = [o \in Objects |-> 0]
    /\ UNCHANGED <<ref_vars, ak_vars, mark_vars, bound_vars,
                   bump_vars,
                   traverse_vars,
                   row_vars>>

\* What a type_Link column and a type_LinkList column can hold when every
\* row exists.
SingleLinkColumns == [1 .. NumKeys -> 0 .. NumKeys]
LinkListColumns ==
    [1 .. NumKeys -> UNION {[1 .. n -> 1 .. NumKeys] : n \in 0 .. MaxListLen}]

\* The link graphs a request is made on: every row exists, MaxLinkCols
\* strong link columns exist, and the rows hold any links; the backlinks
\* are those of the links.
LinkGraphOf(cs, lk) ==
    [EmptyGraph EXCEPT
         !.cl = [t \in Tables |-> Keys],
         !.sz = [t \in Tables |-> NumKeys],
         !.ks = [t \in Tables |-> SortedSeq(Keys)],
         !.nk = [t \in Tables |-> NumKeys],
         !.cols = cs,
         !.lt = [c \in ColIds |-> IF c \in cs THEN "link_Strong"
                                  ELSE "link_Weak"],
         !.names = [c \in ColIds |-> IF c \in cs THEN DefaultName(c)
                                     ELSE <<>>],
         !.bcols = [t \in Tables |->
                      [c \in ColIds |->
                         IF c \in cs /\ Target(c) = t THEN 1 ELSE 0]],
         !.lk = lk,
         !.bl = [c \in ColIds |->
                   [x \in Keys |->
                      [k \in Keys |->
                         IF IsList(c)
                         THEN Cardinality({i \in 1 .. Len(lk[c][k + 1]) :
                                              lk[c][k + 1][i] = x + 1})
                         ELSE IF lk[c][k + 1] = x + 1 THEN 1 ELSE 0]]]]

ColumnsOf(c, cs) ==
    IF c \notin cs THEN {DefaultColumn(c)}
    ELSE IF IsList(c) THEN LinkListColumns
    ELSE SingleLinkColumns

LinkGraphsOver(cs) ==
    {LinkGraphOf(cs, <<a1, a2, a3>>) :
        a1 \in ColumnsOf(1, cs), a2 \in ColumnsOf(2, cs), a3 \in ColumnsOf(3, cs)}

LinkGraphs ==
    UNION {LinkGraphsOver(cs) :
              cs \in {S \in SUBSET ColIds : Cardinality(S) = MaxLinkCols}}

InitLinkGraph ==
    \E g \in LinkGraphs :
        /\ m_clusters = g.cl
        /\ m_next_key_value = g.nk
        /\ m_version = g.ver
        /\ version_global = g.gver
        /\ m_cols = g.cols
        /\ link_type = g.lt
        /\ m_names = g.names
        /\ m_backlink_cols = g.bcols
        /\ m_links = g.lk
        /\ m_backlinks = g.bl
        /\ assert_failed = FALSE
        /\ m_size = g.sz
        /\ m_keys = g.ks
        /\ last = NoCall
        /\ arg_keys = <<>>
        /\ result = NoResult
        /\ pre = EmptyGraph
        /\ retired = [t \in Tables |-> {}]

NextCascade ==
    \/ CascadeBegin
    \/ CascadeStep
    \/ CascadeFinish

\* A link graph on which no request has been made.
InitOfCascade ==
    /\ InitLinkGraph /\ InitRef /\ InitArrayKey /\ InitMarks /\ InitBounds
    /\ InitCascade /\ InitBump /\ InitTraverse /\ InitRows

SpecCascade ==
    /\ InitOfCascade
    /\ [][NextCascade]_vars
    /\ WF_vars(CascadeStep)
    /\ WF_vars(CascadeFinish)

(***************************************************************************)
(* bump_version() step by step.  The calls that have not returned are on   *)
(* bv_stack, the innermost last; a call that propagates stays there until  *)
(* it has followed each of its backlink columns.                           *)
(***************************************************************************)
\* The entry of bump_version() that goes on to the columns without taking
\* over the global version.
bump_enter_version_kept(g, t, bump_global) ==
    LET g1 == IF bump_global THEN bump_global_version(g) ELSE g
    IN  IF should_propagate_version(g1, t)
        THEN [g |-> g1,
              frames |-> <<[t |-> t,
                            cols |-> {c \in g1.cols : Target(c) = t}]>>]
        ELSE [g |-> g1, frames |-> <<>>]

\* The entry of bump_version() that bumps the global version whatever
\* bump_global says.
bump_enter_always_global(g, t, bump_global) ==
    LET g1 == bump_global_version(g)
    IN  IF should_propagate_version(g1, t)
        THEN [g |-> propagated_version(g1, t),
              frames |-> <<[t |-> t,
                            cols |-> {c \in g1.cols : Target(c) = t}]>>]
        ELSE [g |-> g1, frames |-> <<>>]

\* Table::bump_version(bump_global) up to its loop: the global version is
\* bumped if asked for, and if the table has not seen the global version it
\* takes it over and has its columns to follow; if it has, the call returns.
bump_enter(g, t, bump_global) ==
    LET g1 == IF bump_global THEN bump_global_version(g) ELSE g
    IN  IF should_propagate_version(g1, t)
        THEN [g |-> propagated_version(g1, t),
              frames |-> <<[t |-> t,
                            cols |-> {c \in g1.cols : Target(c) = t}]>>]
        ELSE [g |-> g1, frames |-> <<>>]

\* The version counters become those of g2; nothing else of the tables
\* changes.
BumpAssign(g2, stack, visits) ==
    /\ m_version' = g2.ver
    /\ version_global' = g2.gver
    /\ bv_stack' = stack
    /\ bv_visits' = visits
    /\ UNCHANGED <<m_clusters, m_next_key_value, m_cols, link_type, m_names,
                   m_backlink_cols, m_links, m_backlinks, assert_failed,
                   m_size, m_keys, arg_keys, result, retired>>
    /\ UNCHANGED <<ref_vars, ak_vars, mark_vars, bound_vars, cascade_vars,
                   traverse_vars,
                   row_vars>>

\* A mutating call on table t ends with bump_version() (bump_global = true).
BumpBegin ==
    \E t \in Tables :
        /\ ~assert_failed
        /\ last = NoCall
        /\ ~bv_active
        /\ version_global < MaxVersion
        /\ LET r == bump_enter(Graph, t, TRUE)
           IN  BumpAssign(r.g, r.frames, [bv_visits EXCEPT ![t] = @ + 1])
        /\ bv_active' = TRUE
        /\ bv_subject' = t
        /\ pre' = Graph
        /\ last' = Call("bump_version", t, -1, 0, -1, -1, "")

\* The innermost call follows its next column:
\* column_ptr->bump_link_origin_table_version() calls bump_version(false) on
\* the origin table of the backlink column.
BumpFollow ==
    /\ bv_active
    /\ bv_stack # <<>>
    /\ \A t \in Tables : bv_visits[t] < MaxVisits
    /\ LET n == Len(bv_stack)
           f == bv_stack[n]
       IN  /\ f.cols # {}
           /\ LET c == CHOOSE x \in f.cols : \A y \in f.cols : x <= y
                  r == bump_enter(Graph, Origin(c), FALSE)
              IN  BumpAssign(r.g,
                             [bv_stack EXCEPT ![n].cols = @ \ {c}] \o r.frames,
                             [bv_visits EXCEPT ![Origin(c)] = @ + 1])
    /\ UNCHANGED <<bv_active, bv_subject, pre, last>>

\* The innermost call has followed all its columns and returns.
BumpReturn ==
    /\ bv_active
    /\ bv_stack # <<>>
    /\ bv_stack[Len(bv_stack)].cols = {}
    /\ BumpAssign(Graph, SubSeq(bv_stack, 1, Len(bv_stack) - 1), bv_visits)
    /\ UNCHANGED <<bv_active, bv_subject, pre, last>>

\* The call made by the operation has returned.
BumpEnd ==
    /\ bv_active
    /\ bv_stack = <<>>
    /\ BumpAssign(Graph, bv_stack, bv_visits)
    /\ bv_active' = FALSE
    /\ UNCHANGED <<bv_subject, pre, last>>

\* The tables a bump is made on: any link columns between them, and any
\* version counters not ahead of the global one, which other tables of the
\* allocator advance as well.
VersionGraphs ==
    {[LinkGraphOf(cs, [c \in ColIds |-> DefaultColumn(c)])
         EXCEPT !.ver = ver, !.gver = gver] :
        cs \in SUBSET ColIds,
        ver \in [Tables -> 0 .. MaxVersion - 1],
        gver \in 0 .. MaxVersion - 1}

InitVersionGraph ==
    \E g \in VersionGraphs :
        /\ \A t \in Tables : g.ver[t] <= g.gver
        /\ m_clusters = g.cl
        /\ m_next_key_value = g.nk
        /\ m_version = g.ver
        /\ version_global = g.gver
        /\ m_cols = g.cols
        /\ link_type = g.lt
        /\ m_names = g.names
        /\ m_backlink_cols = g.bcols
        /\ m_links = g.lk
        /\ m_backlinks = g.bl
        /\ assert_failed = FALSE
        /\ m_size = g.sz
        /\ m_keys = g.ks
        /\ last = NoCall
        /\ arg_keys = <<>>
        /\ result = NoResult
        /\ pre = EmptyGraph
        /\ retired = [t \in Tables |-> {}]

NextBump ==
    \/ BumpBegin
    \/ BumpFollow
    \/ BumpReturn
    \/ BumpEnd

\* A call that is running keeps running: each of its steps is taken when it
\* is the next one.
\* Tables with link columns and version counters.
InitOfBump ==
    /\ InitVersionGraph /\ InitRef /\ InitArrayKey /\ InitMarks /\ InitBounds
    /\ InitCascade /\ InitBump /\ InitTraverse /\ InitRows

SpecBump ==
    /\ InitOfBump
    /\ [][NextBump]_vars
    /\ WF_vars(BumpFollow)
    /\ WF_vars(BumpReturn)
    /\ WF_vars(BumpEnd)

(***************************************************************************)
(* traverse_clusters(): ClusterTree::traverse(func) hands the leaf         *)
(* clusters to func one after the other in tree order, which is key order, *)
(* until func returns true.                                                *)
(***************************************************************************)
\* traverse() that goes on after the visit function has signalled stop.
RECURSIVE traverse_no_stop(_, _, _, _)
traverse_no_stop(clusters, stops, i, visited) ==
    IF i > Len(clusters)
    THEN [visited |-> visited, result |-> stops \cap (1 .. Len(clusters)) # {}]
    ELSE traverse_no_stop(clusters, stops, i + 1, Append(visited, i))

\* ClusterTree::traverse(func) from cluster i on: true as soon as func
\* returns true for a cluster, false when the clusters are exhausted.
RECURSIVE traverse(_, _, _, _)
traverse(clusters, stops, i, visited) ==
    IF i > Len(clusters) THEN [visited |-> visited, result |-> FALSE]
    ELSE IF i \in stops THEN [visited |-> Append(visited, i), result |-> TRUE]
    ELSE traverse(clusters, stops, i + 1, Append(visited, i))

\* Table::traverse_clusters(func).
traverse_clusters(clusters, stops) == traverse(clusters, stops, 1, <<>>)

\* The cluster trees a traversal is made on: up to MaxClusters leaves, none
\* empty, every key of a leaf below every key of the next leaf.
ClusterLists ==
    {cl \in UNION {[1 .. n -> (SUBSET (0 .. MaxClusterKey)) \ {{}}] :
                      n \in 0 .. MaxClusters} :
        \A i \in 1 .. Len(cl) - 1 :
           \A a \in cl[i], b \in cl[i + 1] : a < b}

InitTraverseInputs ==
    /\ tr_clusters \in ClusterLists
    /\ tr_stops \in SUBSET (1 .. Len(tr_clusters))
    /\ tr_called = FALSE
    /\ tr_visited = <<>>
    /\ tr_result = FALSE

TraverseClusters ==
    /\ ~tr_called
    /\ LET r == traverse_clusters(tr_clusters, tr_stops)
       IN  /\ tr_visited' = r.visited
           /\ tr_result' = r.result
    /\ tr_called' = TRUE
    /\ UNCHANGED <<tr_clusters, tr_stops>>
    /\ UNCHANGED <<table_vars, ref_vars, ak_vars, mark_vars, bound_vars,
                   cascade_vars, bump_vars,
                   row_vars>>

NextTraverse == TraverseClusters

\* A cluster tree and a visit function.
InitOfTraverse ==
    /\ InitTable /\ InitRef /\ InitArrayKey /\ InitMarks /\ InitBounds
    /\ InitCascade /\ InitBump /\ InitTraverseInputs /\ InitRows

SpecTraverse ==
    /\ InitOfTraverse
    /\ [][NextTraverse]_vars

(***************************************************************************)
(* The chain of row accessors.  A row accessor that attaches takes a       *)
(* handle to its table and registers itself at the head of the chain; one  *)
(* that detaches unregisters itself and drops the handle; the table        *)
(* discards all of them at once.  Each walk or change of the chain is made *)
(* under m_accessor_mutex, statement by statement.                         *)
(***************************************************************************)
\* The chain, the row accessors and the reference count as one value.
RowChain ==
    [head |-> m_row_accessors, next |-> row_next, table |-> row_table,
     count |-> m_ref_count]

\* The accessors met from accessor x on, at most fuel of them.
RECURSIVE chain_from(_, _, _)
chain_from(ch, x, fuel) ==
    IF x = 0 \/ fuel = 0 THEN <<>>
    ELSE <<x>> \o chain_from(ch, ch.next[x], fuel - 1)

\* The accessors of the chain in chain order.
chain_of(ch) == chain_from(ch, ch.head, NumRowAccessors + 1)

in_chain(ch, r) == \E i \in 1 .. Len(chain_of(ch)) : chain_of(ch)[i] = r

\* A mutex that anyone may take whoever holds it.
mutex_unchecked(m) == TRUE

\* util::Mutex: it can be taken when no one holds it.
mutex_free(m) == m = 0

\* The row accessor takes a handle to the table (its m_table).
row_bind(ch, r) == [ch EXCEPT !.table[r] = TRUE, !.count = @ + 1]

\* A row accessor that stays attached when its handle is to be dropped.
row_reset_kept(ch, r) == ch

\* row->m_table.reset(): the row accessor is detached and its handle to the
\* table is dropped.
row_reset(ch, r) == [ch EXCEPT !.table[r] = FALSE, !.count = @ - 1]

\* register_row_accessor(), first statement: the new accessor points to the
\* first one.
register_link(ch, r) == [ch EXCEPT !.next[r] = ch.head]

\* register_row_accessor(), second statement: the new accessor is the first.
register_head(ch, r) == [ch EXCEPT !.head = r]

\* do_unregister_row_accessor(): the accessor before r, or the table if r is
\* the first, points to the accessor after r.
do_unregister_row_accessor(ch, r) ==
    IF ch.head = r THEN [ch EXCEPT !.head = ch.next[r]]
    ELSE [ch EXCEPT !.next = [p \in RowIds |->
                                IF in_chain(ch, p) /\ ch.next[p] = r
                                THEN ch.next[r] ELSE ch.next[p]]]

\* What a step on the row accessors leaves alone.
RowFrame ==
    /\ UNCHANGED <<constructed, has_parent, deletes, handles, pc, lock_owner,
                   use_after_delete, ref_last, ref_pre>>
    /\ UNCHANGED <<table_vars, ak_vars, mark_vars, bound_vars, cascade_vars,
                   bump_vars, traverse_vars>>

ChainIs(ch2) ==
    /\ m_row_accessors' = ch2.head
    /\ row_next' = ch2.next
    /\ row_table' = ch2.table
    /\ m_ref_count' = ch2.count

\* A step of row accessor r.
RowStep(r, ch2, pc2, mutex2, reg2) ==
    /\ ChainIs(ch2)
    /\ row_pc' = [row_pc EXCEPT ![r] = pc2]
    /\ m_accessor_mutex' = mutex2
    /\ registered' = reg2
    /\ UNCHANGED <<attached, tbl_pc, tbl_op, tbl_cursor, tbl_pre_chain,
                   tbl_delta, tbl_done>>
    /\ RowFrame

\* A step of the thread that discards or detaches; tbl_delta adds up what
\* the steps of one call do to the reference count.
TableStep(ch2, pc2, cursor2, mutex2, reg2) ==
    /\ ChainIs(ch2)
    /\ tbl_pc' = pc2
    /\ tbl_cursor' = cursor2
    /\ m_accessor_mutex' = mutex2
    /\ registered' = reg2
    /\ tbl_delta' = (IF tbl_pc = "idle" THEN 0 ELSE tbl_delta)
                        + (ch2.count - m_ref_count)
    /\ UNCHANGED row_pc
    /\ RowFrame

\* A row accessor attaches to a row of the table, which is attached.
RowAttach ==
    \E r \in RowIds :
        /\ row_pc[r] = "idle" /\ ~row_table[r]
        /\ constructed /\ attached /\ deletes = 0
        /\ RowStep(r, row_bind(RowChain, r), "bound", m_accessor_mutex,
                   registered)

\* register_row_accessor(): LockGuard lock(m_accessor_mutex).
RegisterLock ==
    \E r \in RowIds :
        /\ row_pc[r] = "bound"
        /\ attached
        /\ mutex_free(m_accessor_mutex)
        /\ RowStep(r, RowChain, "reg_link", r, registered)

RegisterLink ==
    \E r \in RowIds :
        /\ row_pc[r] = "reg_link"
        /\ RowStep(r, register_link(RowChain, r), "reg_head",
                   m_accessor_mutex, registered)

RegisterHead ==
    \E r \in RowIds :
        /\ row_pc[r] = "reg_head"
        /\ RowStep(r, register_head(RowChain, r), "reg_unlock",
                   m_accessor_mutex, registered \cup {r})

RegisterUnlock ==
    \E r \in RowIds :
        /\ row_pc[r] = "reg_unlock"
        /\ RowStep(r, RowChain, "idle", 0, registered)

\* unregister_row_accessor() of an attached row accessor:
\* LockGuard lock(m_accessor_mutex).
UnregisterLock ==
    \E r \in RowIds :
        /\ row_pc[r] = "idle" /\ row_table[r]
        /\ mutex_free(m_accessor_mutex)
        /\ RowStep(r, RowChain, "unreg", r, registered)

UnregisterUnlink ==
    \E r \in RowIds :
        /\ row_pc[r] = "unreg"
        /\ RowStep(r, do_unregister_row_accessor(RowChain, r), "unreg_unlock",
                   m_accessor_mutex, registered \ {r})

UnregisterUnlock ==
    \E r \in RowIds :
        /\ row_pc[r] = "unreg_unlock"
        /\ RowStep(r, RowChain, "release", 0, registered)

\* The row accessor that has unregistered itself drops its handle.
RowRelease ==
    \E r \in RowIds :
        /\ row_pc[r] = "release"
        /\ RowStep(r, row_reset(RowChain, r), "idle", m_accessor_mutex,
                   registered)

\* discard_row_accessors() is called on the attached table.
DiscardRowAccessors ==
    /\ tbl_pc = "idle"
    /\ constructed /\ attached /\ deletes = 0
    /\ TableStep(RowChain, "lock", 0, m_accessor_mutex, registered)
    /\ tbl_op' = "discard"
    /\ tbl_done' = "none"
    /\ tbl_pre_chain' = {}
    /\ UNCHANGED attached

\* detach() is called by the parent while a handle is out: the accessor is
\* put into the detached state and goes on to discard its child accessors.
DetachTable ==
    /\ tbl_pc = "idle"
    /\ constructed /\ has_parent /\ deletes = 0
    /\ Outstanding(Ref) > 0
    /\ TableStep(RowChain, "lock", 0, m_accessor_mutex, registered)
    /\ attached' = detach(Ref).attached
    /\ tbl_op' = "detach"
    /\ tbl_done' = "none"
    /\ tbl_pre_chain' = {}

\* discard_row_accessors(): LockGuard lock(m_accessor_mutex), and the walk
\* starts at the first accessor.
DiscardLock ==
    /\ tbl_pc = "lock"
    /\ mutex_free(m_accessor_mutex)
    /\ TableStep(RowChain, "walk", m_row_accessors, TableThread, registered)
    /\ tbl_pre_chain' = {r \in RowIds : in_chain(RowChain, r)}
    /\ UNCHANGED <<attached, tbl_op, tbl_done>>

\* for (row = m_row_accessors; row; row = row->m_next) row->m_table.reset().
DiscardWalk ==
    /\ tbl_pc = "walk"
    /\ tbl_cursor # 0
    /\ TableStep(row_reset(RowChain, tbl_cursor), "walk", row_next[tbl_cursor],
                 m_accessor_mutex, registered)
    /\ UNCHANGED <<attached, tbl_op, tbl_done, tbl_pre_chain>>

\* m_row_accessors = nullptr.
DiscardClear ==
    /\ tbl_pc = "walk"
    /\ tbl_cursor = 0
    /\ TableStep([RowChain EXCEPT !.head = 0], "unlock", 0, m_accessor_mutex,
                 {})
    /\ UNCHANGED <<attached, tbl_op, tbl_done, tbl_pre_chain>>

\* The mutex is released and the call returns.
DiscardUnlock ==
    /\ tbl_pc = "unlock"
    /\ TableStep(RowChain, "idle", 0, 0, registered)
    /\ tbl_done' = tbl_op
    /\ UNCHANGED <<attached, tbl_op, tbl_pre_chain>>

\* The table is in a group and one handle to it is out.
InitRefHeld ==
    LET r == bind_ptr(Table_ref_count_tag(NoRef, TRUE), 1)
    IN  /\ m_ref_count = r.count
        /\ constructed = r.constructed
        /\ has_parent = r.parent
        /\ attached = r.attached
        /\ deletes = r.deletes
        /\ handles = r.handles
        /\ pc = r.pc
        /\ lock_owner = r.lock
        /\ use_after_delete = r.uad
        /\ ref_last = NoStep
        /\ ref_pre = NoRef

NextRows ==
    \/ RowAttach
    \/ RegisterLock
    \/ RegisterLink
    \/ RegisterHead
    \/ RegisterUnlock
    \/ UnregisterLock
    \/ UnregisterUnlink
    \/ UnregisterUnlock
    \/ RowRelease
    \/ DiscardRowAccessors
    \/ DetachTable
    \/ DiscardLock
    \/ DiscardWalk
    \/ DiscardClear
    \/ DiscardUnlock

\* A table in a group with one handle out and no row accessor.
InitOfRows ==
    /\ InitTable /\ InitRefHeld /\ InitArrayKey /\ InitMarks /\ InitBounds
    /\ InitCascade /\ InitBump /\ InitTraverse /\ InitRows

SpecRows ==
    /\ InitOfRows
    /\ [][NextRows]_vars

(***************************************************************************)
(* Vocabulary of the properties.  A call is judged by the graph it found   *)
(* (pre), the graph it left (Graph) and its arguments (last).  Links are   *)
(* counted in the forward columns, not in the backlink columns.            *)
(***************************************************************************)
Live(g) == {o \in Objects : is_valid(g, o[1], o[2])}

\* The link columns of g that lead from a's table to b's table.
ColsBetween(g, a, b, only_strong) ==
    {c \in g.cols : /\ Origin(c) = a[1]
                    /\ Target(c) = b[1]
                    /\ (only_strong => g.lt[c] = "link_Strong")}

RECURSIVE SumLinkCount(_, _, _, _)
SumLinkCount(g, a, b, C) ==
    IF C = {} THEN 0
    ELSE LET c == CHOOSE d \in C : TRUE
         IN  LinkCount(g, c, a[2], b[2]) + SumLinkCount(g, a, b, C \ {c})

\* Number of links object a holds to object b.
NumLinks(g, a, b, only_strong) ==
    SumLinkCount(g, a, b, ColsBetween(g, a, b, only_strong))

RECURSIVE SumNumLinks(_, _, _)
SumNumLinks(g, only_strong, S) ==
    IF S = {} THEN 0
    ELSE LET p == CHOOSE q \in S : TRUE
         IN  NumLinks(g, p[1], p[2], only_strong)
               + SumNumLinks(g, only_strong, S \ {p})

\* Number of links to object b.
NumLinksTo(g, b, only_strong) ==
    SumNumLinks(g, only_strong, Objects \X {b})

\* The object the last call was made on.
Subject == <<last.t, last.k>>

\* Object a holds the only strong link to object b.
HoldsOnlyStrongLink(g, a, b) ==
    /\ NumLinks(g, a, b, TRUE) = 1
    /\ NumLinksTo(g, b, TRUE) = 1

OnlyLinkChain(g, A, B, C) ==
    /\ HoldsOnlyStrongLink(g, A, B)
    /\ HoldsOnlyStrongLink(g, B, C)
    /\ NumLinksTo(g, B, FALSE) = 1
    /\ NumLinksTo(g, C, FALSE) = 1

\* A, B and C hold no link besides A's to B and B's to C.
HoldNoOtherLink(g, A, B, C) ==
    \A x \in {A, B, C}, y \in Objects :
        NumLinks(g, x, y, FALSE) > 0 => (x = A /\ y = B) \/ (x = B /\ y = C)

HoldsNoLastStrongLink(g, A) ==
    \A x \in Objects \ {A} :
        NumLinks(g, A, x, TRUE) > 0 => NumLinksTo(g, x, TRUE) > NumLinks(g, A, x, TRUE)

\* The links that neither start nor end at A are the same in g and h.
OtherLinksUnchanged(g, h, A) ==
    /\ h.cols = g.cols
    /\ h.lt = g.lt
    /\ \A c \in g.cols, k \in Keys :
          <<Origin(c), k>> # A =>
              IF IsList(c)
              THEN get_linklist(h, c, k) =
                     SelectSeq(get_linklist(g, c, k),
                               LAMBDA v : <<Target(c), v - 1>> # A)
              ELSE h.lk[c][k + 1] =
                     IF <<Target(c), ArrayKey_get(g.lk[c], k)>> = A
                     THEN 0 ELSE g.lk[c][k + 1]

\* C2 as stated: plain remove_object(A) never cascades, whatever the link
\* strength: only A is removed, the links into A are gone and every object
\* A linked to is still valid.
C2_Original ==
    last.op = "remove_object" =>
        /\ Live(Graph) = Live(pre) \ {Subject}
        /\ NumLinksTo(Graph, Subject, FALSE) = 0
        /\ \A x \in Objects \ {Subject} :
              NumLinks(pre, Subject, x, FALSE) > 0 => x \in Live(Graph)

\* C2 amended: plain remove_object(A) removes A and nullifies/clears the
\* links into A; it does not cascade through weak links nor to a target
\* that another strong link still points to: when no strong link held by A
\* is the last strong link to its target, only A is removed and every
\* object A linked to is still valid, with all other links as they were.
C2_Amended ==
    last.op = "remove_object" =>
        /\ Subject \notin Live(Graph)
        /\ NumLinksTo(Graph, Subject, FALSE) = 0
        /\ HoldsNoLastStrongLink(pre, Subject) =>
              /\ Live(Graph) = Live(pre) \ {Subject}
              /\ OtherLinksUnchanged(pre, Graph, Subject)

\* A held a weak link to x and a strong link to y, which another object
\* also held a strong link to; an object held a link to A; only A is gone.
C2_Witness ==
    /\ last.op = "remove_object"
    /\ HoldsNoLastStrongLink(pre, Subject)
    /\ \E x, y, r \in Live(Graph) :
          /\ NumLinks(pre, Subject, x, FALSE) > 0
          /\ NumLinks(pre, Subject, x, TRUE) = 0
          /\ NumLinks(pre, Subject, y, TRUE) > 0
          /\ NumLinks(pre, r, Subject, FALSE) > 0
    /\ Live(Graph) = Live(pre) \ {Subject}

(***************************************************************************)
(* C3.                                                                     *)
(***************************************************************************)
\* C3: remove_object(A) breaks every link A holds (no forward link and no
\* backlink entry of A is left), and a target that A held a strong link to
\* and that no other object held a strong link to is removed by the same
\* call.
C3_CascadeOnRemove ==
    last.op = "remove_object" =>
        /\ \A x \in Objects : NumLinks(Graph, Subject, x, FALSE) = 0
        /\ \A c \in ColIds, x \in Keys :
              Origin(c) = Subject[1] => m_backlinks[c][x][Subject[2]] = 0
        /\ \A x \in Objects \ {Subject} :
              /\ NumLinks(pre, Subject, x, TRUE) > 0
              /\ NumLinksTo(pre, x, TRUE) = NumLinks(pre, Subject, x, TRUE)
              => x \notin Live(Graph)

\* remove_object(A) removed a target x of A's strong link although a live
\* object y held a weak link to x; y is still live.
C3_Witness ==
    /\ last.op = "remove_object"
    /\ \E x, y \in Live(pre) \ {Subject} :
          /\ x # y
          /\ NumLinks(pre, Subject, x, TRUE) > 0
          /\ NumLinksTo(pre, x, TRUE) = NumLinks(pre, Subject, x, TRUE)
          /\ NumLinks(pre, y, x, FALSE) > 0
          /\ x \notin Live(Graph)
          /\ y \in Live(Graph)

(***************************************************************************)
(* C4.                                                                     *)
(***************************************************************************)
\* Object A has incoming links and all of them are weak.
AllIncomingLinksWeak(g, A) ==
    /\ NumLinksTo(g, A, FALSE) > 0
    /\ NumLinksTo(g, A, TRUE) = 0

\* C4 as stated: remove_object on an object whose incoming links are all
\* weak removes exactly that object, and no link to it is left.
C4_Original ==
    (last.op = "remove_object" /\ AllIncomingLinksWeak(pre, Subject)) =>
        /\ Live(Graph) = Live(pre) \ {Subject}
        /\ NumLinksTo(Graph, Subject, FALSE) = 0

\* C4 amended: remove_object on an object whose incoming links are all weak
\* and that holds no strong link that is the last strong link to its
\* target removes exactly that object: the live objects are the previous
\* ones minus it, every referrer's single link to it is null, every
\* referrer's link list is its previous list without the entries for it,
\* and no other link changes.
C4_Amended ==
    (/\ last.op = "remove_object"
     /\ AllIncomingLinksWeak(pre, Subject)
     /\ HoldsNoLastStrongLink(pre, Subject)) =>
        /\ Live(Graph) = Live(pre) \ {Subject}
        /\ NumLinksTo(Graph, Subject, FALSE) = 0
        /\ OtherLinksUnchanged(pre, Graph, Subject)

\* A referrer's list held the removed object before another object; the
\* referrer is live and its list now holds the other object only.
C4_Witness ==
    /\ last.op = "remove_object"
    /\ AllIncomingLinksWeak(pre, Subject)
    /\ HoldsNoLastStrongLink(pre, Subject)
    /\ \E c \in pre.cols, k \in Keys, x \in Keys :
          /\ IsList(c)
          /\ Target(c) = Subject[1]
          /\ x # Subject[2]
          /\ get_linklist(pre, c, k) = <<Subject[2] + 1, x + 1>>
          /\ m_links[c][k + 1] = <<x + 1>>
          /\ is_valid(Graph, Origin(c), k)

(***************************************************************************)
(* C5.                                                                     *)
(***************************************************************************)
\* C5: every non-null forward link value of every link column is a key that
\* is valid in the column's target table.
C5_NoDanglingLink ==
    \A c \in ColIds, k \in Keys :
        IF IsList(c)
        THEN \A i \in 0 .. (Len(m_links[c][k + 1]) - 1) :
                 /\ ~ArrayKey_is_null(m_links[c][k + 1], i)
                 /\ is_valid(Graph, Target(c), ArrayKey_get(m_links[c][k + 1], i))
        ELSE ArrayKey_is_null(m_links[c], k)
               \/ is_valid(Graph, Target(c), ArrayKey_get(m_links[c], k))

\* A removal took away an object that an object still live held a link to.
C5_Witness ==
    /\ last.op \in {"remove_object", "remove_object_recursive", "clear",
                    "remove_column"}
    /\ \E r \in Live(Graph), x \in Live(pre) \ Live(Graph) :
          NumLinks(pre, r, x, FALSE) > 0

(***************************************************************************)
(* C6.                                                                     *)
(***************************************************************************)
\* C6: the backlink column paired with link column c holds, for target x
\* and origin o, as many entries as o holds forward links to x in c (none
\* when there is no such link); after remove_object(o) no target holds a
\* backlink entry for o.
C6_Reciprocal ==
    /\ \A c \in ColIds, x \in Keys, o \in Keys :
          m_backlinks[c][x][o] =
              IF c \in m_cols THEN LinkCount(Graph, c, o, x) ELSE 0
    /\ last.op = "remove_object" =>
          \A c \in ColIds, x \in Keys :
              Origin(c) = Subject[1] => m_backlinks[c][x][Subject[2]] = 0

\* remove_object(o) was called on an object that held a link to x, so that
\* x held a backlink entry for o; x is still live.
C6_Witness ==
    /\ last.op = "remove_object"
    /\ \E c \in pre.cols, x \in Keys :
          /\ Origin(c) = Subject[1]
          /\ pre.bl[c][x][Subject[2]] > 0
          /\ is_valid(Graph, Target(c), x)
          /\ m_backlinks[c][x][Subject[2]] = 0

(***************************************************************************)
(* C7.                                                                     *)
(***************************************************************************)
\* The link that the last call, a write to one link slot, found in the slot.
OldTarget ==
    IF last.op = "set_link" THEN ArrayKey_get(pre.lk[last.c], last.k)
    ELSE ArrayKey_get(get_linklist(pre, last.c, last.k), last.ndx)

\* The last call broke one link: it nullified a link, overwrote it with a
\* link to a different target, or removed it from a link list.
BrokeOneLink ==
    \/ last.op = "linklist_remove"
    \/ /\ last.op \in {"set_link", "linklist_set"}
       /\ OldTarget # null_key
       /\ OldTarget # last.target

\* The object the broken link pointed to.
BrokenTarget == <<Target(last.c), OldTarget>>

\* C7: when one strong link is broken, its target is removed if and only
\* if no strong link to it is left after the break.
C7_RemovedIffLastStrong ==
    (BrokeOneLink /\ pre.lt[last.c] = "link_Strong") =>
        (BrokenTarget \notin Live(Graph)
           <=> NumLinksTo(pre, BrokenTarget, TRUE) = 1)

\* The last strong link to an object was broken while a weak link still
\* pointed to it: the object is gone.
C7_Witness ==
    /\ BrokeOneLink
    /\ pre.lt[last.c] = "link_Strong"
    /\ NumLinksTo(pre, BrokenTarget, TRUE) = 1
    /\ NumLinksTo(pre, BrokenTarget, FALSE) > 1
    /\ BrokenTarget \in Live(pre) \ Live(Graph)

(***************************************************************************)
(* C8.                                                                     *)
(***************************************************************************)
\* The last call overwrote a link with a link to the same target.
WroteSameTarget ==
    /\ last.op \in {"set_link", "linklist_set"}
    /\ OldTarget # null_key
    /\ OldTarget = last.target

\* C8: overwriting a link with a link to the same target object removes
\* nothing and leaves the live objects, every link value and every backlink
\* entry as they were.
C8_SameTargetNoBreak ==
    WroteSameTarget =>
        /\ Graph = pre
        /\ Live(Graph) = Live(pre)

\* The overwritten link was strong and the only strong link to its target.
C8_Witness ==
    /\ WroteSameTarget
    /\ pre.lt[last.c] = "link_Strong"
    /\ NumLinksTo(pre, BrokenTarget, TRUE) = 1
    /\ BrokenTarget \in Live(Graph)

(***************************************************************************)
(* C9.                                                                     *)
(***************************************************************************)
\* Objects A and B are two objects that hold strong links to each other.
StrongCycle(g, A, B) ==
    /\ A # B
    /\ NumLinks(g, A, B, TRUE) > 0
    /\ NumLinks(g, B, A, TRUE) > 0

\* The last call broke links of object P and nothing else: a write to one
\* link slot of P, or the clearing of P's link list.
BrokeLinksOf(P) ==
    /\ BrokeOneLink \/ last.op = "linklist_clear"
    /\ P = <<Origin(last.c), last.k>>

\* The last call broke a link of column last.c to object A.
BrokeLinkTo(A) ==
    /\ A[1] = Target(last.c)
    /\ IF last.op = "linklist_clear"
       THEN LinkCount(pre, last.c, last.k, A[2]) > 0
       ELSE BrokeOneLink /\ OldTarget = A[2]

\* C9: when A and B hold strong links to each other and a third object
\* breaks a strong link it holds to A, A and B are both still valid.
C9_CycleSurvives ==
    \A A, B, P \in Objects :
        (/\ StrongCycle(pre, A, B)
         /\ P \notin {A, B}
         /\ BrokeLinksOf(P)
         /\ BrokeLinkTo(A)
         /\ pre.lt[last.c] = "link_Strong")
        => {A, B} \subseteq Live(Graph)

\* The third object's link was the only strong link to A from outside the
\* cycle, and A and B are still live after the break.
C9_Witness ==
    \E A, B, P \in Objects :
        /\ StrongCycle(pre, A, B)
        /\ P \notin {A, B}
        /\ BrokeLinksOf(P)
        /\ BrokeLinkTo(A)
        /\ pre.lt[last.c] = "link_Strong"
        /\ NumLinksTo(pre, A, TRUE) = NumLinks(pre, B, A, TRUE) + 1
        /\ NumLinksTo(Graph, A, TRUE) = NumLinks(Graph, B, A, TRUE)
        /\ {A, B} \subseteq Live(Graph)

(***************************************************************************)
(* C10.                                                                    *)
(***************************************************************************)
\* A and B hold strong links to each other and no other strong link points
\* to either of them: A holds the one strong link to B, and B holds every
\* strong link to A.
OrphanedCycle(g, A, B) ==
    /\ StrongCycle(g, A, B)
    /\ NumLinksTo(g, B, TRUE) = 1
    /\ NumLinksTo(g, A, TRUE) = NumLinks(g, B, A, TRUE)

\* C10: when A and B form such a cycle and A's link to B is changed to a
\* link to a third object C, both A and B are removed by the write.
C10_CycleRemovedOnWrite ==
    \A A, B, C \in Objects :
        (/\ OrphanedCycle(pre, A, B)
         /\ last.op \in {"set_link", "linklist_set"}
         /\ A = <<Origin(last.c), last.k>>
         /\ B = BrokenTarget
         /\ C = <<Target(last.c), last.target>>
         /\ C \in Live(pre) \ {A, B}
         /\ pre.lt[last.c] = "link_Strong")
        => {A, B} \cap Live(Graph) = {}

\* A's link in an orphaned cycle with B was changed to C, which another
\* object holds a strong link to: A and B are gone and C is still live.
C10_Witness ==
    \E A, B, C \in Live(pre) :
        /\ OrphanedCycle(pre, A, B)
        /\ last.op \in {"set_link", "linklist_set"}
        /\ A = <<Origin(last.c), last.k>>
        /\ B = BrokenTarget
        /\ C = <<Target(last.c), last.target>>
        /\ C \notin {A, B}
        /\ pre.lt[last.c] = "link_Strong"
        /\ Live(Graph) = Live(pre) \ {A, B}

\* ---------------------------------------------------------------------------
\* C11 .. C20: keys, lookup, bulk removal, iteration, size.

\* The call that has just returned was a create_object that made an object.
Created == last.op = "create_object" /\ result.err = "none"

\* C11: within one table at most one live object carries a given key, and
\* no create_object call returns or accepts a key that an earlier,
\* since-removed object of the same table carried.
C11_NeverReused ==
    /\ \A t \in Tables :
           \A i, j \in 1 .. Len(m_keys[t]) :
               m_keys[t][i] = m_keys[t][j] => i = j
    /\ Created => last.k \notin retired[last.t]

\* C12: create_object(key) with the key of a live object fails with
\* DuplicateKey and leaves the table as it was: the same live keys, the
\* same size, the same stored links.
C12_DuplicateKey ==
    (/\ last.op = "create_object"
     /\ last.target # null_key
     /\ is_valid(pre, last.t, last.target))
    => /\ result.err = "DuplicateKey"
       /\ m_clusters = pre.cl
       /\ m_keys = pre.ks
       /\ m_size = pre.sz
       /\ m_links = pre.lk
       /\ m_backlinks = pre.bl
       /\ Graph = pre

\* create_object(key) failed on the key of an object that holds a link.
C12_Witness ==
    /\ last.op = "create_object"
    /\ last.target = last.k
    /\ result.err = "DuplicateKey"
    /\ is_valid(Graph, last.t, last.k)
    /\ \E B \in Objects : NumLinks(Graph, Subject, B, FALSE) > 0

\* The value the allocation counter of the called table stood at before the
\* call (an unset counter starts at 0).
CounterBefore == IF pre.nk[last.t] = -1 THEN 0 ELSE pre.nk[last.t]

RemovedExplicitly(o) ==
    \/ last.op \in {"remove_object", "remove_object_recursive"} /\ o = Subject
    \/ last.op = "clear" /\ o[1] = last.t
    \/ last.op = "batch_erase_rows" /\ o \in RowsOf(last.t, arg_keys)

\* The calls that break links, and so may remove by cascade.
BreaksLinks ==
    last.op \in {"remove_object", "remove_object_recursive", "clear",
                 "batch_erase_rows", "set_link", "linklist_set",
                 "linklist_remove", "linklist_clear", "remove_column"}

\* The call removes o by cascade: it breaks links, and a link led to o or
\* the call itself wrote a link to o.
RemovedByCascade(o) ==
    /\ BreaksLinks
    /\ \/ NumLinksTo(pre, o, FALSE) > 0
       \/ /\ last.op \in {"set_link", "linklist_set"}
          /\ o = <<Target(last.c), last.target>>

\* The link columns of object o hold the defaults: null link, empty list.
HoldsDefaults(g, o) ==
    \A c \in ColIds : Origin(c) = o[1] => g.lk[c][o[2] + 1] = DefaultColumn(c)[o[2] + 1]

RECURSIVE remove_each(_, _, _)
remove_each(g, t, keys) ==
    IF keys = <<>> THEN g
    ELSE remove_each(IF is_valid(g, t, Head(keys))
                     THEN remove_object(g, t, Head(keys)) ELSE g,
                     t, Tail(keys))

\* C16: bulk removal of an ascending list of keys leaves exactly the state
\* that removing the keys one at a time in ascending order leaves: the same
\* live objects, the same links and backlinks.
C16_BulkAsSequential ==
    last.op = "batch_erase_rows"
    => LET g == remove_each(pre, last.t, arg_keys)
       IN  /\ m_clusters = g.cl
           /\ m_links = g.lk
           /\ m_backlinks = g.bl
           /\ Graph = g

\* A bulk removal of two keys that removed an object of another table by
\* cascade and nullified a link of an object that stays.
C16_Witness ==
    /\ last.op = "batch_erase_rows"
    /\ Len(arg_keys) = 2
    /\ arg_keys[1] < arg_keys[2]
    /\ \E o \in Live(pre) \ Live(Graph) : o[1] # last.t
    /\ \E A \in Live(Graph) : \E B \in RowsOf(last.t, arg_keys) :
           NumLinks(pre, A, B, FALSE) > 0

\* C17: clear() leaves the table empty, and in this and every linked table
\* it leaves what removing each object of the table individually leaves:
\* the same links broken, the same links nullified, the same objects
\* cascade-removed.
C17_ClearAsIndividual ==
    last.op = "clear"
    => LET g == clear_from(pre, last.t, 0)
       IN  /\ m_clusters[last.t] = {}
           /\ m_size[last.t] = 0
           /\ m_clusters = g.cl
           /\ m_links = g.lk
           /\ m_backlinks = g.bl
           /\ Graph = g

\* clear() of a table of two objects removed an object of the other table
\* by cascade and nullified a link that an object of the other table, which
\* stays, held to a cleared object.
C17_Witness ==
    /\ last.op = "clear"
    /\ Cardinality(pre.cl[last.t]) = 2
    /\ \E o \in Live(pre) \ Live(Graph) : o[1] # last.t
    /\ \E A \in Live(Graph) : \E B \in Live(pre) :
           B[1] = last.t /\ NumLinks(pre, A, B, FALSE) > 0

\* The sequence lists its keys in strictly ascending order.
StrictlyAscending(ks) == \A i, j \in 1 .. Len(ks) : i < j => ks[i] < ks[j]

\* C18: iteration from begin() to end() yields every live object exactly
\* once, in strictly ascending key order, and no removed object, whatever
\* the order in which keys were handed to create_object.
C18_IterationOrder ==
    /\ \A t \in Tables :
           /\ StrictlyAscending(m_keys[t])
           /\ {m_keys[t][i] : i \in 1 .. Len(m_keys[t])} = m_clusters[t]
    /\ last.op = "iterate"
       => /\ result.val = m_keys[last.t]
          /\ StrictlyAscending(result.val)
          /\ {result.val[i] : i \in 1 .. Len(result.val)} = m_clusters[last.t]
          /\ Len(result.val) = Cardinality(m_clusters[last.t])

\* create_object(key) made an object whose key is less than the key of an
\* object created before it, after another object had been removed; the
\* iteration order lists the new key first.
C18_Witness ==
    /\ Created
    /\ last.target = last.k
    /\ retired[last.t] # {}
    /\ \E k \in pre.cl[last.t] : k > last.k
    /\ Len(m_keys[last.t]) = 2
    /\ m_keys[last.t][1] = last.k

\* C19: in every reachable state size() equals the number of valid keys of
\* the table, and is_empty() is true exactly when that number is zero.
C19_SizeIsLiveCount ==
    /\ \A t \in Tables :
           /\ m_size[t] = Cardinality({k \in Keys : is_valid(Graph, t, k)})
           /\ m_size[t] = Len(m_keys[t])
    /\ last.op = "size"
       => /\ result.val.size = Cardinality({k \in Keys : is_valid(Graph, last.t, k)})
          /\ result.val.is_empty <=> \A k \in Keys : ~is_valid(Graph, last.t, k)

\* A removal in one table removed an object of the other table by cascade:
\* the size of the other table went down with it.
C19_Witness ==
    /\ last.op \in {"remove_object", "remove_object_recursive", "clear",
                    "batch_erase_rows"}
    /\ \E t \in Tables :
           /\ t # last.t
           /\ m_size[t] < pre.sz[t]
           /\ m_size[t] = Cardinality(m_clusters[t])

\* The calls that change a table, and the calls that only read it.
MutatingOps ==
    {"create_object", "remove_object", "remove_object_recursive", "clear",
     "add_column_link", "remove_column", "rename_column", "set_link"}
ReadOnlyOps ==
    {"is_valid", "get_object", "size", "iterate", "get_version_counter"}

C22_NoWindow ==
    has_parent
    => /\ deletes = 1 => Outstanding(Ref) = 0
       /\ deletes <= 1
       /\ ~use_after_delete

\* C23: after detach() is_attached() is false; detach() on a detached
\* accessor changes nothing; no step makes a detached accessor attached
\* again; the accessor of a free-standing table is attached until it is
\* destroyed.
C23_DetachedIsTerminal ==
    /\ ref_last.op = "detach" => ~attached
    /\ (ref_last.op = "detach" /\ ~ref_pre.attached) => Ref = ref_pre
    /\ (ref_pre.constructed /\ ~ref_pre.attached) => ~attached
    /\ (constructed /\ ~has_parent /\ deletes = 0) => attached
    /\ ref_last.op = "is_attached" => Ref = ref_pre

\* detach() was called on an accessor that was already detached while a
\* handle to it is out.
C23_Witness ==
    /\ ref_last.op = "detach"
    /\ ref_pre.constructed
    /\ ~ref_pre.attached
    /\ Outstanding(Ref) > 0
    /\ deletes = 0

(***************************************************************************)
(* C24: link columns and backlink columns are paired one to one: a table   *)
(* holds exactly one backlink column for every link column that targets it *)
(* and none for any other column.  add_column_link() adds one column to    *)
(* the origin and one backlink column to the target, remove_column() takes *)
(* both away, and adding a link column and removing it at once gives back  *)
(* the column counts and the backlink columns of every table, for a column *)
(* whose target is its own table too.                                      *)
(***************************************************************************)
C24_LinkBacklinkPairing ==
    /\ \A c \in ColIds, t \in Tables :
          m_backlink_cols[t][c] = IF c \in m_cols /\ t = Target(c) THEN 1 ELSE 0
    /\ last.op = "add_column_link" =>
          /\ get_column_count(Graph, last.t) = get_column_count(pre, last.t) + 1
          /\ BacklinkColumnCount(Graph, Target(last.c))
                = BacklinkColumnCount(pre, Target(last.c)) + 1
    /\ last.op = "remove_column" =>
          /\ get_column_count(Graph, last.t) = get_column_count(pre, last.t) - 1
          /\ \A t \in Tables : m_backlink_cols[t][last.c] = 0
    /\ ~assert_failed =>
          \A c \in ColIds \ m_cols, lt \in LinkTypes :
              LET g2 == remove_column(add_column_link(Graph, c, lt), c)
              IN  /\ \A t \in Tables :
                        /\ get_column_count(g2, t) = get_column_count(Graph, t)
                        /\ BacklinkColumnCount(g2, t)
                              = BacklinkColumnCount(Graph, t)
                  /\ g2.cols = m_cols
                  /\ g2.bcols = m_backlink_cols

\* The self-link column of T, holding a link, has just been removed while
\* the list column of U still targets T: T keeps that one backlink column.
C24_Witness ==
    /\ last.op = "remove_column"
    /\ last.c = 3
    /\ \E k \in Keys : pre.lk[3][k + 1] # 0
    /\ pre.bcols["T"][3] = 1
    /\ m_backlink_cols["T"][3] = 0
    /\ 2 \in m_cols
    /\ BacklinkColumnCount(Graph, "T") = 1

(***************************************************************************)
(* C25: a call that adds or renames a column fails with DuplicateName when *)
(* a column of the table already has the name or the name is longer than   *)
(* 63 code units, and changes nothing; otherwise the column gets the name. *)
(* In every state the columns of a table have pairwise different names of  *)
(* at most 63 code units.                                                  *)
(***************************************************************************)
NamingOps == {"add_column_link", "insert_column_link", "rename_column"}

C25_ColumnNames ==
    /\ \A c \in m_cols :
          /\ Len(m_names[c]) <= max_column_name_length
          /\ \A d \in m_cols \ {c} :
                Origin(d) = Origin(c) => m_names[d] # m_names[c]
    /\ last.op \in NamingOps =>
          IF \/ name_in_use(pre, last.t, last.name)
             \/ Len(last.name) > max_column_name_length
          THEN result.err = "DuplicateName" /\ Graph = pre
          ELSE /\ result.err = "none"
               /\ last.c \in m_cols
               /\ m_names[last.c] = last.name

\* Table T has a column named "a" and a column whose name has 63 code
\* units; giving a column of T the name "a" has failed.
C25_Witness ==
    /\ last.op \in NamingOps
    /\ last.t = "T"
    /\ last.name = <<"a">>
    /\ name_in_use(pre, "T", <<"a">>)
    /\ result.err = "DuplicateName"
    /\ \E c \in m_cols : Origin(c) = "T" /\ Len(m_names[c]) = max_column_name_length

C27_SetGetRoundTrip ==
    (ak_last.op \in {"set", "add", "insert"} /\ ak_last.value # null_key) =>
        /\ ArrayKey_get(ak_array, ak_last.ndx) = ak_last.value
        /\ ~ArrayKey_is_null(ak_array, ak_last.ndx)
        /\ ak_last.op = "set" =>
              /\ Len(ak_array) = Len(ak_pre)
              /\ \A j \in 0 .. (Len(ak_pre) - 1) :
                    j # ak_last.ndx => ak_array[j + 1] = ak_pre[j + 1]
        /\ ak_last.op = "add" =>
              /\ ak_last.ndx = Len(ak_pre)
              /\ SubSeq(ak_array, 1, Len(ak_pre)) = ak_pre
        /\ ak_last.op = "insert" =>
              Array_erase(ak_array, ak_last.ndx) = ak_pre

\* set() has written the greatest key value, whose stored form wraps
\* around, into the middle slot of an array whose first slot is null.
C27_Witness ==
    /\ ak_last.op = "set"
    /\ ak_last.ndx = 1
    /\ ak_last.value = 2 ^ (KeyBits - 1) - 1
    /\ Len(ak_array) = MaxArrayLen
    /\ ArrayKey_is_null(ak_array, 0)
    /\ ak_pre[2] # ak_array[2]

(***************************************************************************)
(* C28: after set_null(i), is_null(i) is true and get(i) is the null key,  *)
(* the value default_value() returns, and no other slot has changed.  In   *)
(* every array is_null(i) is true only for slots whose get(i) is the null  *)
(* key.                                                                    *)
(***************************************************************************)
C28_SetNull ==
    /\ ak_last.op = "set_null" =>
          /\ ArrayKey_is_null(ak_array, ak_last.ndx)
          /\ ArrayKey_get(ak_array, ak_last.ndx) = ArrayKey_default_value
          /\ Len(ak_array) = Len(ak_pre)
          /\ \A j \in 0 .. (Len(ak_pre) - 1) :
                j # ak_last.ndx => ak_array[j + 1] = ak_pre[j + 1]
    /\ \A i \in 0 .. (Len(ak_array) - 1) :
          ArrayKey_is_null(ak_array, i) =>
              ArrayKey_get(ak_array, i) = ArrayKey_default_value

\* set_null() on a slot that held a key, next to a slot that still holds one.
C28_Witness ==
    /\ ak_last.op = "set_null"
    /\ ak_last.ndx = 0
    /\ Len(ak_pre) > 1
    /\ ~ArrayKey_is_null(ak_pre, 0)
    /\ ArrayKey_is_null(ak_array, 0)
    /\ ~ArrayKey_is_null(ak_array, 1)

(***************************************************************************)
(* C29: find_first(key, begin, end) with a key that is not the null key    *)
(* returns the smallest index in [begin, end) whose slot holds the key, or *)
(* npos when no slot in the range holds it; it never returns the index of  *)
(* a null slot.                                                            *)
(***************************************************************************)
C29_FindFirst ==
    (ak_last.op = "find_first" /\ ak_last.value # null_key) =>
        LET hits == {i \in ak_last.begin .. (ak_last.end - 1) :
                        ArrayKey_get(ak_pre, i) = ak_last.value}
        IN  /\ ak_array = ak_pre
            /\ hits = {} => ak_result = npos
            /\ hits # {} =>
                  /\ ak_result \in hits
                  /\ \A j \in hits : ak_result <= j
                  /\ ~ArrayKey_is_null(ak_pre, ak_result)

\* The key is held by slot 0 and slot 2, slot 1 is null, and the search from
\* index 1 has found slot 2.
C29_Witness ==
    /\ ak_last.op = "find_first"
    /\ ak_last.value = 0
    /\ ak_last.begin = 1
    /\ ak_last.end = 3
    /\ ak_pre = <<1, 0, 1>>
    /\ ak_result = 2

(***************************************************************************)
(* C30: nullify(key) on an array that holds the key erases the first slot  *)
(* holding it and nothing else: the size drops by one, the other slots     *)
(* keep their values and order, later slots holding the key stay.  On an   *)
(* array that does not hold the key the assertion fails.                   *)
(***************************************************************************)
C30_NullifyFirst ==
    ak_last.op = "nullify" =>
        LET hits == {i \in 0 .. (Len(ak_pre) - 1) :
                        ArrayKey_get(ak_pre, i) = ak_last.value}
        IN  /\ ak_failed <=> hits = {}
            /\ hits = {} => ak_array = ak_pre
            /\ hits # {} =>
                  LET first == CHOOSE i \in hits : \A j \in hits : i <= j
                  IN  /\ Len(ak_array) = Len(ak_pre) - 1
                      /\ ak_array = SubSeq(ak_pre, 1, first)
                                      \o SubSeq(ak_pre, first + 2, Len(ak_pre))

\* nullify() of a key held by slots 1 and 2 has erased slot 1: the slot
\* before it and the later slot holding the key are still there.
C30_Witness ==
    /\ ak_last.op = "nullify"
    /\ ak_last.value = 1
    /\ ak_pre = <<1, 2, 2>>
    /\ ak_array = <<1, 2>>
    /\ ~ak_failed

\* nullify() of a key the array does not hold has failed its assertion.
C30_WitnessAssert ==
    /\ ak_last.op = "nullify"
    /\ ak_failed
    /\ ak_pre # <<>>

(***************************************************************************)
(* C31: remove_column() on a link column breaks every link stored in the   *)
(* column as breaking them one origin row at a time does: no link and no   *)
(* backlink entry of the column is left, every target whose strong         *)
(* incoming links were all in the column is cascade-removed, and the graph *)
(* is the one that nullifying or clearing the links row by row, and then   *)
(* dropping the empty column, leaves.                                      *)
(***************************************************************************)
\* The links of column c broken row by row, in key order; an origin row
\* that an earlier cascade has removed is passed over.
RECURSIVE break_each(_, _, _)
break_each(g, c, keys) ==
    IF keys = <<>> THEN g
    ELSE LET k == Head(keys)
             g1 == IF ~is_valid(g, Origin(c), k) THEN g
                   ELSE IF IsList(c) THEN linklist_clear(g, c, k)
                   ELSE do_set_link(g, c, k, null_key)
         IN  break_each(g1, c, Tail(keys))

\* The targets all of whose strong incoming links are in column last.c.
LastStrongInColumn ==
    {x \in Live(pre) :
        /\ x[1] = Target(last.c)
        /\ pre.lt[last.c] = "link_Strong"
        /\ \E k \in Keys : LinkCount(pre, last.c, k, x[2]) > 0
        /\ \A d \in pre.cols \ {last.c}, k \in Keys :
              (Target(d) = x[1] /\ pre.lt[d] = "link_Strong")
                  => LinkCount(pre, d, k, x[2]) = 0}

ProtocolComplete ==
    /\ was_marked # {}
    /\ \A a \in Accessors : NeedsMark(a) => m_mark[a]
    /\ \A a \in Accessors : AccessorParent(a) = "group" => ~m_mark[a]

C32_MarkedAreRefreshed ==
    /\ ProtocolComplete =>
          /\ refreshed = was_marked
          /\ \A a \in Accessors : ~m_mark[a]
          /\ stale = {}
    /\ \A a \in refreshed : ~m_mark[a] /\ a \notin stale
    /\ refreshed # {} => \A a \in stale : m_mark[a]

\* The boundary is over: SS was stale, so SS, S1 and G1 were marked and
\* refreshed, and S2 and G2 were left alone.
C32_Witness ==
    /\ ProtocolComplete
    /\ was_marked = {"SS", "S1", "G1"}
    /\ refreshed = {"SS", "S1", "G1"}

(***************************************************************************)
(* C33: on a column sorted ascending, lower_bound_int(v) is the index of   *)
(* the first row whose value is >= v and upper_bound_int(v) the index of   *)
(* the first row whose value is > v, each the number of rows when there is *)
(* no such row; lower_bound_int(v) <= upper_bound_int(v) <= size, and the  *)
(* rows from lower_bound_int(v) up to upper_bound_int(v) are exactly the   *)
(* rows equal to v.                                                        *)
(***************************************************************************)
SortedAscending(col) ==
    \A i, j \in 1 .. Len(col) : i < j => col[i] <= col[j]

\* The index of the first row for which Holds is true, or the number of rows.
FirstRow(col, Holds(_)) ==
    LET rows == {i \in 0 .. (Len(col) - 1) : Holds(col[i + 1])}
    IN  IF rows = {} THEN Len(col)
        ELSE CHOOSE i \in rows : \A j \in rows : i <= j

C33_Bounds ==
    (bound_last.op # "none" /\ SortedAscending(int_column)) =>
        LET v == bound_last.value
            AtLeast(x) == x >= v
            Above(x) == x > v
            l == lower_bound_int(int_column, v)
            u == upper_bound_int(int_column, v)
        IN  /\ bound_last.op = "lower_bound_int" =>
                  bound_result = FirstRow(int_column, AtLeast)
            /\ bound_last.op = "upper_bound_int" =>
                  bound_result = FirstRow(int_column, Above)
            /\ bound_result \in {l, u}
            /\ l <= u
            /\ u <= Len(int_column)
            /\ \A i \in 0 .. (Len(int_column) - 1) :
                  (l <= i /\ i < u) <=> int_column[i + 1] = v

\* The lower bound of a value that a sorted column holds twice, after a
\* lesser value and before a greater one.
C33_Witness ==
    /\ bound_last.op = "lower_bound_int"
    /\ bound_last.value = 1
    /\ int_column = <<0, 1, 1, 2>>
    /\ bound_result = 1

\* The cascade state of a request under way: each row entered it once, and
\* what the request is about to remove is what remove_object_recursive()
\* removes.
CascadeOnce ==
    /\ \A o \in Objects : cs_enqueued[o] <= 1
    /\ cs_active =>
          /\ cs_rows = {o \in Objects : cs_enqueued[o] = 1}
          /\ cs_todo \subseteq cs_rows
          /\ cs_rows \subseteq Live(Graph)
          /\ cs_todo = {} =>
                remove_backlink_broken_rows(cs_graph, cs_rows)
                    = remove_object_recursive(Graph, cs_subject[1],
                                              cs_subject[2])

(***************************************************************************)
(* C34: a remove_object_recursive() request comes to an end on every link  *)
(* graph, with strong cycles and self-links too, and no (table, key) pair  *)
(* enters the cascade state twice during the request; what the request     *)
(* removes is what remove_object_recursive() is defined to remove.         *)
(***************************************************************************)
C34_CascadeTerminates ==
    /\ []CascadeOnce
    /\ (cs_active ~> ~cs_active)

\* A request on row 0 of T is about to return on a graph with a strong
\* cycle, row 0 linking to row 1 and row 1 back to row 0: both rows are in
\* the cascade state, each entered once.
C34_Witness ==
    /\ cs_active
    /\ cs_todo = {}
    /\ cs_subject = <<"T", 0>>
    /\ cs_rows = {<<"T", 0>>, <<"T", 1>>}
    /\ 3 \in m_cols
    /\ m_links[3] = <<2, 1>>

\* What the calls made so far add up to: a table is called at most once by
\* the operation and once through each link column it is the origin of, the
\* calls that have not returned are on different tables, and when the last
\* has returned the version counters are those bump_version() yields.
BumpBounded ==
    /\ \A t \in Tables :
          bv_visits[t] <= (IF t = bv_subject THEN 1 ELSE 0)
                            + Cardinality({c \in m_cols : Origin(c) = t})
    /\ \A i, j \in 1 .. Len(bv_stack) : bv_stack[i].t = bv_stack[j].t => i = j
    /\ (bv_subject # "none" /\ bv_stack = <<>>) =>
          Graph = bump_version(pre, bv_subject, TRUE)

C37_TraverseOrder ==
    tr_called =>
        LET n == Len(tr_clusters)
            m == Len(tr_visited)
        IN  /\ \A i \in 1 .. m : tr_visited[i] = i
            /\ m <= n
            /\ \A i, j \in 1 .. m :
                  i < j => \A a \in tr_clusters[tr_visited[i]],
                              b \in tr_clusters[tr_visited[j]] : a < b
            /\ \A i \in 1 .. m - 1 : tr_visited[i] \notin tr_stops
            /\ tr_result <=> (m > 0 /\ tr_visited[m] \in tr_stops)
            /\ tr_result <=> tr_stops # {}
            /\ tr_stops = {} =>
                  /\ m = n
                  /\ UNION {tr_clusters[tr_visited[i]] : i \in 1 .. m}
                        = UNION {tr_clusters[i] : i \in 1 .. n}
                  /\ \A k \in UNION {tr_clusters[i] : i \in 1 .. n} :
                        Cardinality({i \in 1 .. m :
                                        k \in tr_clusters[tr_visited[i]]}) = 1

\* The visit function signalled stop for the second of three clusters: two
\* clusters were visited, the third was not, and traverse() returned true.
C37_Witness ==
    /\ tr_called
    /\ Len(tr_clusters) = 3
    /\ tr_stops = {2, 3}
    /\ tr_visited = <<1, 2>>
    /\ tr_result

\* The accessors of a sequence, each counted once.
Distinct(s) == \A i, j \in 1 .. Len(s) : s[i] = s[j] => i = j

(***************************************************************************)
(* C38: whatever the interleaving of register_row_accessor(),              *)
(* unregister_row_accessor() and discard_row_accessors() calls, whenever   *)
(* no call holds the accessor mutex the chain holds exactly the accessors  *)
(* registered and not yet unregistered or discarded, each of them once,    *)
(* and every accessor of the chain is attached.                            *)
(***************************************************************************)
C38_ChainIsRegistered ==
    m_accessor_mutex = 0 =>
        LET ch == chain_of(RowChain)
        IN  /\ Distinct(ch)
            /\ {ch[i] : i \in 1 .. Len(ch)} = registered
            /\ \A r \in registered : row_table[r]
            /\ \A r \in RowIds :
                  row_pc[r] = "idle" => (row_table[r] <=> r \in registered)

\* Three accessors registered one after the other and the one in the middle
\* of the chain has unregistered itself: the chain holds the other two.
C38_Witness ==
    /\ m_accessor_mutex = 0
    /\ chain_of(RowChain) = <<3, 1>>
    /\ registered = {1, 3}
    /\ row_pc[2] = "release"
    /\ row_next[2] = 1

====
